---------------------------- MODULE Spec2Model ----------------------------
(***************************************************************************)
(* Model of the SmurfSniper analytics core and opponent resolver.          *)
(*                                                                         *)
(*   - Player.get_best_match     (sc_match_briefer/models/player.py)       *)
(*   - PlayerAnalysis.smurf_warning, PlayerAnalysis.mmr_trend              *)
(*                               (smurfsniper/analyze.py)                  *)
(*   - PlayerStats.get_match_history, the merge / sort / dedup of rating   *)
(*     points                    (sc_match_briefer/models/player.py)       *)
(*                                                                         *)
(* Every component has its own specification (SpecResolver, SpecSmurf,     *)
(* SpecTrend, SpecWindow, SpecNormalizer): the components are pure and     *)
(* share no state, so each is explored with the variables of the others    *)
(* held at their initial values.                                           *)
(***************************************************************************)
EXTENDS Integers, Sequences, FiniteSets, TLC

VARIABLES
    candidates,   \* what Player.matches() returned, in API order
    hint,         \* the [min_mmr, max_mmr] arguments of get_best_match
    outcome,      \* "idle" | "ok" | "IndexError"
    best,         \* position (1-based) in candidates of the returned record
    h,            \* player_stats.match_history as smurf_warning reads it
    warning,      \* what smurf_warning returned, "unevaluated" before the call
    hist,         \* player_stats.match_history as mmr_trend reads it
    hist2,        \* a second match history, for comparing two evaluations
    build,        \* which summation the interpreter's sum() performs
    trend,        \* what mmr_trend returned for hist, "unevaluated" before
    trend2,       \* the same for hist2
    data,         \* the JSON of the team-histories response
    fetched,      \* "idle" | "no urls" | "done": how get_match_history ended
    history,      \* what get_match_history returned
    match_history,\* player_stats.match_history of a PlayerAnalysis
    now,          \* the instant at which the windowed counts are read
    counts,       \* what the ten windowed accessors returned
    report,       \* what summary() returned
    team_list,    \* player_stats.members.character.teams
    my_name,      \* the name of the character itself
    available,    \* whether player_stats.match_history is there
    available2,   \* the same for a second PlayerAnalysis of the character
    table,        \* what the teammates property returned
    table2,       \* the same for the second PlayerAnalysis
    config,       \* GamePoller.config: me and team.members
    game,         \* the players the game client reports now
    previous_state, \* GamePoller.previous_state
    overlays,     \* OPEN_OVERLAYS: the overlays registered and not closed
    team_analysis,  \* GamePoller.team_analysis
    player_log,   \* the rows of the player_log table, oldest first
    tick,         \* how the last poll_once ended and what it resolved
    briefing,     \* the same for the last pass of the briefer's poll_games
    lookups,      \* parity of the number of polls that called the stats API
    stored,       \* the rows of the player_log table, with created_at
    asked_id,     \* the battlenetId whose encounters are fetched
    fetch_limit,  \* the limit argument of from_battlenet_id
    logs,         \* what from_battlenet_id and summary() returned
    shown,        \* the overlays after _handle_1v1 for that opponent
    frames,       \* the handlers running on the Qt thread, innermost last
    timer_due,    \* the poll timer's interval has elapsed, timeout pending
    widgets,      \* the overlays created so far, in order of creation
    show_delay    \* seconds_delay_before_show of the history overlay

resolverVars == <<candidates, hint, outcome, best>>
smurfVars == <<h, warning>>
trendVars == <<hist, hist2, build, trend, trend2>>
normVars == <<data, fetched, history>>
analysisVars == <<match_history, now, counts, report>>

\* The components other than the resolver, the smurf heuristic, the trend
\* classifier and the normalizer.
teammateVars == <<team_list, my_name, available, available2, table, table2>>
pollerVars ==
    <<config, game, previous_state, overlays, team_analysis, player_log,
      tick, briefing, lookups>>
historyVars == <<stored, asked_id, fetch_limit, logs, shown>>
loopVars == <<frames, timer_due, widgets, show_delay>>
moreVars == <<historyVars, loopVars>>
laterVars == <<analysisVars, teammateVars, pollerVars, moreVars>>

vars == <<resolverVars, smurfVars, trendVars, normVars, laterVars>>

(***************************************************************************)
(* Bounds of the exploration.                                              *)
(***************************************************************************)
MaxCands == 2     \* candidates returned by one search
MaxTeams == 1     \* teams of one candidate character
MaxTs    == 2     \* distinct last-played instants
Max3W    == 5     \* wins / losses of the 3-day window
Max3L    == 2
Max7W    == 7     \* wins / losses of the 7-day window
Max7L    == 3
MaxLifeW == 22    \* lifetime wins / losses
MaxLifeL == 10
MaxLen   == 5     \* rating samples of a short match history
MaxOlder == 1     \* samples older than the most recent hundred
MaxEntries == 2   \* entries of one team-histories response
MaxPoints == 2    \* points of one entry

(***************************************************************************)
(* Small helpers.                                                          *)
(***************************************************************************)
SeqsUpTo(S, n) == UNION { [1..k -> S] : k \in 0..n }

Range(s) == { s[i] : i \in 1..Len(s) }

\* The resolver before any call.
ResolverIdle ==
    /\ candidates = <<>>
    /\ hint = [min |-> 0, max |-> 5000]
    /\ outcome = "idle"
    /\ best = 0

\* The smurf heuristic before any call, with no history fetched.
SmurfIdle ==
    /\ h = [present |-> FALSE, w3 |-> 0, l3 |-> 0, w7 |-> 0, l7 |-> 0,
            wl |-> 0, ll |-> 0]
    /\ warning = "unevaluated"

\* The trend classifier before any call, with no history fetched.
NoHistory == [present |-> FALSE, ratings |-> <<>>]

TrendIdle ==
    /\ hist = NoHistory
    /\ hist2 = NoHistory
    /\ build = "plain"
    /\ trend = "unevaluated"
    /\ trend2 = "unevaluated"

\* The normalizer before any call.
NormIdle ==
    /\ data = <<>>
    /\ fetched = "idle"
    /\ history = [present |-> FALSE, timestamps |-> <<>>, ratings |-> <<>>]

\* The analytics accessors before any read, on a character without history.
AnalysisIdle ==
    /\ match_history = [present |-> FALSE, events |-> <<>>, ratings |-> <<>>]
    /\ now = 0
    /\ counts = [outcome |-> "unread"]
    /\ report = [outcome |-> "unread"]

\* The teammate tracker before any read, for a character without teams.
TeammatesIdle ==
    /\ team_list = <<>>
    /\ my_name = "me"
    /\ available = FALSE
    /\ available2 = FALSE
    /\ table = [outcome |-> "unread"]
    /\ table2 = [outcome |-> "unread"]

\* The poller before it is constructed, with no game reported.
PollerIdle ==
    /\ config = [me |-> [name |-> "me"], team |-> [members |-> {}]]
    /\ game = <<>>
    /\ previous_state = [kind |-> "None", state |-> <<>>]
    /\ overlays = {}
    /\ team_analysis = [present |-> FALSE, merged |-> <<>>]
    /\ player_log = <<>>
    /\ tick = [handler |-> "none", outcome |-> "idle", attempted |-> <<>>,
               stats |-> <<>>]
    /\ briefing = [handler |-> "none", outcome |-> "idle",
                   attempted |-> <<>>, stats |-> <<>>]
    /\ lookups = 0

\* The encounter history before any fetch, the table empty.
HistoryIdle ==
    /\ stored = <<>>
    /\ asked_id = 0
    /\ fetch_limit = 0
    /\ logs = [outcome |-> "unread"]
    /\ shown = [outcome |-> "unread"]

\* The Qt thread before the application runs.
LoopIdle ==
    /\ frames = <<>>
    /\ timer_due = FALSE
    /\ widgets = <<>>
    /\ show_delay = 0

MoreIdle == HistoryIdle /\ LoopIdle

LaterIdle == AnalysisIdle /\ TeammatesIdle /\ PollerIdle /\ MoreIdle

(***************************************************************************)
(* IEEE-754 binary64 arithmetic, as CPython's float performs it.           *)
(*                                                                         *)
(* A double is the dyadic number (-1)^neg * m * 2^e with m < 2^53.  TLC's  *)
(* integers have 32 bits, so the significand m is a natural number held    *)
(* as a sequence of limbs, least significant first, with no leading zero   *)
(* limb (zero is <<>>).  Every operation computes the exact result and     *)
(* rounds it to nearest, ties to even.  The magnitudes of this program     *)
(* (ratings, sample indices, their means and products) stay far from       *)
(* overflow and from the subnormal range, so the exponent is unbounded     *)
(* here.                                                                   *)
(***************************************************************************)

\* One limb holds 15 bits: a product of two limbs plus carries stays below
\* 2^31.
LimbBits == 15
Base == 32768

\* Bits of a double's significand.
MantBits == 53

RECURSIVE BNorm(_)
BNorm(a) ==
    IF a = <<>> THEN <<>>
    ELSE IF a[Len(a)] = 0 THEN BNorm(SubSeq(a, 1, Len(a) - 1)) ELSE a

RECURSIVE BFromNat(_)
BFromNat(n) == IF n = 0 THEN <<>> ELSE <<n % Base>> \o BFromNat(n \div Base)

Limb(a, i) == IF i <= Len(a) THEN a[i] ELSE 0

\* -1, 0, 1 as a < b, a = b, a > b.
RECURSIVE BCmpFrom(_, _, _)
BCmpFrom(a, b, i) ==
    IF i = 0 THEN 0
    ELSE IF a[i] < b[i] THEN -1
    ELSE IF a[i] > b[i] THEN 1
    ELSE BCmpFrom(a, b, i - 1)

BCmp(a, b) ==
    IF Len(a) < Len(b) THEN -1
    ELSE IF Len(a) > Len(b) THEN 1
    ELSE BCmpFrom(a, b, Len(a))

RECURSIVE BAddFrom(_, _, _, _)
BAddFrom(a, b, i, carry) ==
    IF i > Len(a) /\ i > Len(b)
    THEN (IF carry = 0 THEN <<>> ELSE <<carry>>)
    ELSE LET t == Limb(a, i) + Limb(b, i) + carry
         IN  <<t % Base>> \o BAddFrom(a, b, i + 1, t \div Base)

BAdd(a, b) == BAddFrom(a, b, 1, 0)

\* a - b for a >= b.
RECURSIVE BSubFrom(_, _, _, _)
BSubFrom(a, b, i, borrow) ==
    IF i > Len(a) THEN <<>>
    ELSE LET t == a[i] - Limb(b, i) - borrow
         IN  IF t < 0
             THEN <<t + Base>> \o BSubFrom(a, b, i + 1, 1)
             ELSE <<t>> \o BSubFrom(a, b, i + 1, 0)

BSub(a, b) == BNorm(BSubFrom(a, b, 1, 0))

\* a * k for one limb k.
RECURSIVE BMulLimbFrom(_, _, _, _)
BMulLimbFrom(a, k, i, carry) ==
    IF i > Len(a) THEN (IF carry = 0 THEN <<>> ELSE <<carry>>)
    ELSE LET t == a[i] * k + carry
         IN  <<t % Base>> \o BMulLimbFrom(a, k, i + 1, t \div Base)

BMulLimb(a, k) == IF k = 0 THEN <<>> ELSE BMulLimbFrom(a, k, 1, 0)

Zeros(q) == [ i \in 1..q |-> 0 ]

\* a * Base^q
BShiftLimbs(a, q) == IF a = <<>> THEN <<>> ELSE Zeros(q) \o a

RECURSIVE BMulFrom(_, _, _)
BMulFrom(a, b, j) ==
    IF j > Len(b) THEN <<>>
    ELSE BAdd(BShiftLimbs(BMulLimb(a, b[j]), j - 1), BMulFrom(a, b, j + 1))

BMul(a, b) == BMulFrom(a, b, 1)

\* a * 2^k
BShl(a, k) == BShiftLimbs(BMulLimb(a, 2 ^ (k % LimbBits)), k \div LimbBits)

\* floor(a / 2^k)
BShr(a, k) ==
    LET q == k \div LimbBits
        r == k % LimbBits
        d == 2 ^ r
        u == 2 ^ (LimbBits - r)
    IN  IF q >= Len(a) THEN <<>>
        ELSE BNorm([ i \in 1..(Len(a) - q) |->
                       (a[i + q] \div d) + (Limb(a, i + q + 1) % d) * u ])

RECURSIVE LimbLen(_)
LimbLen(x) == IF x = 0 THEN 0 ELSE 1 + LimbLen(x \div 2)

\* Number of bits of a (0 for zero).
BBitLen(a) ==
    IF a = <<>> THEN 0 ELSE LimbBits * (Len(a) - 1) + LimbLen(a[Len(a)])

\* Bit i of a, bit 0 the least significant.
BBit(a, i) == (Limb(a, (i \div LimbBits) + 1) \div (2 ^ (i % LimbBits))) % 2

\* Whether the k low bits of a are all zero.
BLowZero(a, k) ==
    /\ \A i \in 1..(k \div LimbBits) : Limb(a, i) = 0
    /\ Limb(a, (k \div LimbBits) + 1) % (2 ^ (k % LimbBits)) = 0

\* Number of trailing zero bits of a non-zero a.
RECURSIVE LimbTz(_)
LimbTz(x) == IF x % 2 = 1 THEN 0 ELSE 1 + LimbTz(x \div 2)

RECURSIVE BTzFrom(_, _)
BTzFrom(a, i) ==
    IF a[i] = 0 THEN LimbBits + BTzFrom(a, i + 1) ELSE LimbTz(a[i])

BTz(a) == BTzFrom(a, 1)

\* One digit of the long division: the largest d < Base with d * b <= cur,
\* found bit by bit from the top.
RECURSIVE BDigit(_, _, _, _)
BDigit(cur, b, bit, d) ==
    IF bit < 0 THEN d
    ELSE IF BCmp(BMulLimb(b, d + 2 ^ bit), cur) <= 0
         THEN BDigit(cur, b, bit - 1, d + 2 ^ bit)
         ELSE BDigit(cur, b, bit - 1, d)

\* Long division, one limb of a at a time from the most significant: after
\* the limbs i.. of a, [q, r] with (a div Base^(i-1)) = q * b + r, r < b.
RECURSIVE BDivModFrom(_, _, _)
BDivModFrom(a, b, i) ==
    IF i > Len(a) THEN [q |-> <<>>, r |-> <<>>]
    ELSE LET prev == BDivModFrom(a, b, i + 1)
             cur == BNorm(<<a[i]>> \o prev.r)
             d == BDigit(cur, b, LimbBits - 1, 0)
         IN  [q |-> BNorm(<<d>> \o prev.q), r |-> BSub(cur, BMulLimb(b, d))]

\* [q, r] with a = q * b + r, 0 <= r < b, for b # 0.
BDivMod(a, b) == BDivModFrom(a, b, 1)

FZero == [neg |-> FALSE, m |-> <<>>, e |-> 0]

FIsZero(x) == x.m = <<>>

\* The unique representation: an odd significand (zero has no sign here:
\* -0.0 and 0.0 compare equal and are both false).
FCanon(neg, n, e) ==
    IF n = <<>> THEN FZero
    ELSE LET tz == BTz(n)
         IN  [neg |-> neg, m |-> BShr(n, tz), e |-> e + tz]

\* The double nearest to (-1)^neg * n * 2^e, ties to even.
FRound(neg, n, e) ==
    LET len == BBitLen(n)
    IN  IF len <= MantBits THEN FCanon(neg, n, e)
        ELSE LET k == len - MantBits
                 q == BShr(n, k)
                 up == /\ BBit(n, k - 1) = 1
                       /\ (~BLowZero(n, k - 1) \/ BBit(q, 0) = 1)
             IN  FCanon(neg, IF up THEN BAdd(q, <<1>>) ELSE q, e + k)

\* float(i) for an int of this program's size (exact).
FFromInt(i) ==
    IF i < 0 THEN FRound(TRUE, BFromNat(-i), 0) ELSE FRound(FALSE, BFromNat(i), 0)

FNeg(x) == IF FIsZero(x) THEN x ELSE [x EXCEPT !.neg = ~x.neg]

IntMin(a, b) == IF a < b THEN a ELSE b

\* Compare the magnitudes |x| and |y|: -1, 0, 1.
FCmpAbs(x, y) ==
    IF FIsZero(x) THEN (IF FIsZero(y) THEN 0 ELSE -1)
    ELSE IF FIsZero(y) THEN 1
    ELSE LET lo == IntMin(x.e, y.e)
         IN  BCmp(BShl(x.m, x.e - lo), BShl(y.m, y.e - lo))

\* Compare x and y: -1, 0, 1.
FCmp(x, y) ==
    IF FIsZero(x) /\ FIsZero(y) THEN 0
    ELSE IF FIsZero(x) THEN (IF y.neg THEN 1 ELSE -1)
    ELSE IF FIsZero(y) THEN (IF x.neg THEN -1 ELSE 1)
    ELSE IF x.neg /\ ~y.neg THEN -1
    ELSE IF ~x.neg /\ y.neg THEN 1
    ELSE IF x.neg THEN FCmpAbs(y, x) ELSE FCmpAbs(x, y)

FAdd(x, y) ==
    IF FIsZero(x) THEN y
    ELSE IF FIsZero(y) THEN x
    ELSE LET lo == IntMin(x.e, y.e)
             a == BShl(x.m, x.e - lo)
             b == BShl(y.m, y.e - lo)
             c == BCmp(a, b)
         IN  IF x.neg = y.neg THEN FRound(x.neg, BAdd(a, b), lo)
             ELSE IF c = 0 THEN FZero
             ELSE IF c > 0 THEN FRound(x.neg, BSub(a, b), lo)
             ELSE FRound(y.neg, BSub(b, a), lo)

FSub(x, y) == FAdd(x, FNeg(y))

FMul(x, y) ==
    IF FIsZero(x) \/ FIsZero(y) THEN FZero
    ELSE FRound(x.neg # y.neg, BMul(x.m, y.m), x.e + y.e)

\* x / y for y # 0: the quotient to 56 bits or more, the remainder folded
\* into a sticky bit, then rounded.
FDiv(x, y) ==
    IF FIsZero(x) THEN FZero
    ELSE LET need == MantBits + 3 + BBitLen(y.m) - BBitLen(x.m)
             t == IF need > 0 THEN need ELSE 0
             d == BDivMod(BShl(x.m, t), y.m)
             sticky == IF d.r = <<>> THEN <<>> ELSE <<1>>
         IN  FRound(x.neg # y.neg, BAdd(BMulLimb(d.q, 2), sticky),
                    x.e - y.e - t - 1)

\* A decimal literal p/q of the source text: the double nearest to it.
FLiteral(p, q) == FDiv(FFromInt(p), FFromInt(q))

(***************************************************************************)
(* Opponent resolver: Player.get_best_match.                               *)
(***************************************************************************)

\* currentStats.rating is Optional: None is modelled by this sentinel.
None == -1

\* The character "Z" that ends the API's ISO-8601 timestamps.
ZChar == 90

\* datetime.min, the initial value of `newest`.
DatetimeMin == 0

\* An ISO string "....Z" for instant t: the digits, then the letter Z.
IsoZ(t) == <<t, ZChar>>

\* team.lastPlayed: None (the empty sequence here) or an ISO string.
LastPlayedValues == { <<>> } \cup { IsoZ(t) : t \in 1..MaxTs }

\* Ratings of the search results: None, below, inside and above the hint
\* windows, and exactly on their edges.
Ratings == { None, 1200, 1800, 2200 }

\* One search result: a PlayerStats with its rating and its character's
\* teams (each team reduced to its lastPlayed field).
Candidates == [ rating : Ratings, teams : SeqsUpTo(LastPlayedValues, MaxTeams) ]

\* The hint windows tried: the spec's example (only 1800 inside) and one
\* whose two edges are ratings (1800 and 2200 inside, on the edges).
HintRanges ==
    { [min |-> 1500, max |-> 2100], [min |-> 1800, max |-> 2200] }

\* str.replace("Z", "")
ReplaceZ(s) == SelectSeq(s, LAMBDA c : c # ZChar)

\* datetime.fromisoformat of a string without the trailing Z.
FromIsoFormat(s) == s[1]

\* The list comprehension of lines 116-120, as positions in candidates.
InRangeMut(c, min_mmr, max_mmr) ==
    c.rating # None /\ min_mmr < c.rating /\ c.rating < max_mmr

InRange(c, min_mmr, max_mmr) ==
    c.rating # None /\ min_mmr <= c.rating /\ c.rating <= max_mmr

RECURSIVE FilterIdx(_, _, _, _)
FilterIdx(cands, i, min_mmr, max_mmr) ==
    IF i > Len(cands) THEN <<>>
    ELSE (IF InRange(cands[i], min_mmr, max_mmr) THEN <<i>> ELSE <<>>)
         \o FilterIdx(cands, i + 1, min_mmr, max_mmr)

\* `if not filtered: filtered = candidates` (lines 122-127).
AllIdx(cands) == [ i \in 1..Len(cands) |-> i ]

FallbackMut(cands, filtered) == filtered

Fallback(cands, filtered) ==
    IF filtered = <<>> THEN AllIdx(cands) ELSE filtered

\* The inner loop over one candidate's teams (lines 135-143); acc is
\* [newest, best].
NewerFlipped(dt, newest) == dt < newest

NewerOrEqual(dt, newest) == dt >= newest

Newer(dt, newest) == dt > newest

RECURSIVE ScanTeams(_, _, _, _)
ScanTeams(teams, j, idx, acc) ==
    IF j > Len(teams) THEN acc
    ELSE IF teams[j] = <<>>
         THEN ScanTeams(teams, j + 1, idx, acc)
         ELSE LET dt == FromIsoFormat(ReplaceZ(teams[j]))
              IN  IF Newer(dt, acc.newest)
                  THEN ScanTeams(teams, j + 1, idx, [newest |-> dt, best |-> idx])
                  ELSE ScanTeams(teams, j + 1, idx, acc)

\* The outer loop over the filtered candidates (lines 132-143).
RECURSIVE ScanMatches(_, _, _, _)
ScanMatches(cands, filtered, k, acc) ==
    IF k > Len(filtered) THEN acc
    ELSE ScanMatches(cands, filtered, k + 1,
                     ScanTeams(cands[filtered[k]].teams, 1, filtered[k], acc))

\* The set the selection runs over, after the fallback.
Considered(cands, min_mmr, max_mmr) ==
    Fallback(cands, FilterIdx(cands, 1, min_mmr, max_mmr))

\* get_best_match: filtered[0] raises IndexError on an empty list (line 129).
get_best_match(cands, min_mmr, max_mmr) ==
    LET filtered == Considered(cands, min_mmr, max_mmr)
    IN  IF filtered = <<>>
        THEN [outcome |-> "IndexError", best |-> 0]
        ELSE [outcome |-> "ok",
              best |-> ScanMatches(cands, filtered, 1,
                           [newest |-> DatetimeMin, best |-> filtered[1]]).best]

InitResolver ==
    ResolverIdle /\ SmurfIdle /\ TrendIdle /\ NormIdle /\ LaterIdle

\* One call of get_best_match: the search returns some list, the selection
\* runs on it.  Each behaviour follows one call.
GetBestMatch ==
    /\ outcome = "idle"
    /\ \E cands \in SeqsUpTo(Candidates, MaxCands), range \in HintRanges :
         LET r == get_best_match(cands, range.min, range.max)
         IN  /\ candidates' = cands
             /\ hint' = range
             /\ outcome' = r.outcome
             /\ best' = r.best
    /\ UNCHANGED <<smurfVars, trendVars, normVars, laterVars>>

NextResolver == GetBestMatch

SpecResolver == InitResolver /\ [][NextResolver]_vars

(***************************************************************************)
(* Claims about the opponent resolver (checked under SpecResolver).        *)
(***************************************************************************)

\* The claims' own reading of the inputs, independent of the code's filter.
Called == outcome # "idle"

RatingWithin(i) ==
    /\ candidates[i].rating >= hint.min
    /\ candidates[i].rating <= hint.max

WithinSet == { i \in 1..Len(candidates) : RatingWithin(i) }

\* The filtered set, or the whole list when nothing is in range.
ClaimSet == IF WithinSet # {} THEN WithinSet ELSE 1..Len(candidates)

\* The last-played instants of the teams of candidate i.
PlayedAt(i) ==
    { candidates[i].teams[j][1] :
        j \in { k \in 1..Len(candidates[i].teams) : candidates[i].teams[k] # <<>> } }

\* C1: when some candidate's rating lies in [min, max] (inclusive) the
\* returned candidate is one of the in-range candidates, whatever the
\* timestamps of the others; when none is in range (and the search returned
\* something) the call still succeeds and returns a candidate of the full
\* list.
C1_InRangeWins ==
    Called =>
        /\ WithinSet # {} => (outcome = "ok" /\ best \in WithinSet)
        /\ (WithinSet = {} /\ Len(candidates) > 0) =>
               (outcome = "ok" /\ best \in 1..Len(candidates))

\* C1 witness: an in-range candidate is returned although an out-of-range
\* candidate has played more recently.
C1_Witness ==
    /\ outcome = "ok"
    /\ best \in WithinSet
    /\ \E i \in 1..Len(candidates) :
          /\ i \notin WithinSet
          /\ \E t \in PlayedAt(i) : \A u \in PlayedAt(best) : t > u

\* C2: the returned candidate owns a team whose last-played instant is at
\* least every last-played instant of every team of the set the selection
\* ran over; when no team of the set has one, the first candidate of the
\* set is returned.
C2_MostRecentWins ==
    (Called /\ outcome = "ok") =>
        LET all == UNION { PlayedAt(i) : i \in ClaimSet }
        IN  /\ all # {} => \E t \in PlayedAt(best) : \A u \in all : t >= u
            /\ all = {} => \A i \in ClaimSet : best <= i

\* C2 witness: the most recently played candidate is not the first one.
C2_Witness ==
    /\ outcome = "ok"
    /\ best > 1
    /\ 1 \in ClaimSet
    /\ PlayedAt(1) # {}
    /\ \E t \in PlayedAt(best) : \A u \in PlayedAt(1) : t > u

\* The NotFound outcome of the resolver is the IndexError of line 129.
NotFound == "IndexError"

\* C3: one record is returned whenever the search returned a candidate;
\* the call fails with NotFound exactly when the search returned nothing,
\* so a search with candidates but none in range (the fallback) succeeds.
C3_OneRecordOrNotFound ==
    Called =>
        /\ Len(candidates) >= 1 => (outcome = "ok" /\ best \in 1..Len(candidates))
        /\ Len(candidates) = 0 => (outcome = NotFound /\ best = 0)

\* C3 witness: candidates exist, none is in range, and a record is returned.
C3_Witness ==
    /\ outcome = "ok"
    /\ Len(candidates) >= 1
    /\ WithinSet = {}
    /\ best \in 1..Len(candidates)

\* C3, the failing side: an empty search result ends in NotFound.
C3_WitnessNotFound == Called /\ Len(candidates) = 0 /\ outcome = NotFound

\* The latest last-played instant among the teams of the set.
Latest ==
    CHOOSE t \in UNION { PlayedAt(i) : i \in ClaimSet } :
        \A u \in UNION { PlayedAt(i) : i \in ClaimSet } : t >= u

\* The candidates of the set that own a team last played at that instant.
LatestOwners ==
    IF UNION { PlayedAt(i) : i \in ClaimSet } = {} THEN {}
    ELSE { i \in ClaimSet : Latest \in PlayedAt(i) }

\* C28: among the candidates of the set that share the latest last-played
\* instant, the one that comes first in the order of the search result is
\* returned.
C28_FirstOfTiedWins ==
    (Called /\ outcome = "ok" /\ LatestOwners # {}) =>
        /\ best \in LatestOwners
        /\ \A i \in LatestOwners : best <= i

\* C28 witness: two candidates share the latest instant and the earlier
\* one is returned.
C28_Witness ==
    /\ outcome = "ok"
    /\ Cardinality(LatestOwners) >= 2
    /\ best \in LatestOwners
    /\ \E i \in LatestOwners : i > best

(***************************************************************************)
(* Smurf heuristic: PlayerAnalysis.smurf_warning.                          *)
(***************************************************************************)

\* The three labels (the source's strings, without the warning sign) and
\* the None of "no warning".
LikelySmurf == "Likely Smurf (3d winrate >= 80%)"
PossibleSmurf == "Possible Smurf (7d winrate >= 75%)"
LifetimeSmurf == "Suspiciously strong lifetime winrate"
NoWarning == "None"
ZeroDivisionError == "ZeroDivisionError"

\* The literals 0.80, 0.75 and 0.70, as the doubles they denote.
LikelyRate == FLiteral(80, 100)
PossibleRate == FLiteral(75, 100)
LifetimeRate == FLiteral(70, 100)

\* The largest number of games one window can report here.
GamesCap ==
    LET sizes == { Max3W + Max3L, Max7W + Max7L, MaxLifeW + MaxLifeL }
    IN  CHOOSE m \in sizes : \A k \in sizes : k <= m

\* w / n, Python's true division of two ints: the double nearest to the
\* quotient.  The quotients of every w wins out of n games are tabulated.
Quotients ==
    [ n \in 1..GamesCap |-> [ w \in 0..n |-> FDiv(FFromInt(w), FFromInt(n)) ] ]

TrueDiv(w, n) == Quotients[n][w]

\* `winrate >= 0.80` read as `winrate > 0.80`.
AtLeastStrict(rate, literal) == FCmp(rate, literal) > 0

\* `winrate >= 0.80`, a comparison of two doubles.
AtLeast(rate, literal) == FCmp(rate, literal) >= 0

\* One rule: `if (w + l) >= games: rate = w / (w + l); if rate >= literal:
\* return label`, else fall through to rest.  Dividing by zero raises.
Rule(w, l, games, literal, label, rest) ==
    IF (w + l) >= games
    THEN IF w + l = 0 THEN ZeroDivisionError
         ELSE IF AtLeast(TrueDiv(w, w + l), literal) THEN label ELSE rest
    ELSE rest

\* The same rules tried in the wrong order (7-day before 3-day).
smurf_warning_7first(mh) ==
    IF ~mh.present THEN NoWarning
    ELSE Rule(mh.w7, mh.l7, 8, PossibleRate, PossibleSmurf,
         Rule(mh.w3, mh.l3, 5, LikelyRate, LikelySmurf,
         Rule(mh.wl, mh.ll, 30, LifetimeRate, LifetimeSmurf,
         NoWarning)))

AttributeError == "AttributeError"

\* The property without its guard of lines 159-161: the counts are read from
\* whatever match_history is.
smurf_warning_unguarded(mh) ==
    IF ~mh.present THEN AttributeError
    ELSE Rule(mh.w3, mh.l3, 5, LikelyRate, LikelySmurf,
         Rule(mh.w7, mh.l7, 8, PossibleRate, PossibleSmurf,
         Rule(mh.wl, mh.ll, 30, LifetimeRate, LifetimeSmurf,
         NoWarning)))

smurf_warning(mh) ==
    IF ~mh.present THEN NoWarning
    ELSE Rule(mh.w3, mh.l3, 5, LikelyRate, LikelySmurf,
         Rule(mh.w7, mh.l7, 8, PossibleRate, PossibleSmurf,
         Rule(mh.wl, mh.ll, 30, LifetimeRate, LifetimeSmurf,
         NoWarning)))

\* player_stats.match_history as smurf_warning may find it: None, or the
\* windowed counts of a fetched history.
NoWindows ==
    [present |-> FALSE, w3 |-> 0, l3 |-> 0, w7 |-> 0, l7 |-> 0,
     wl |-> 0, ll |-> 0]

Histories ==
    { NoWindows } \cup
    [ present : {TRUE}, w3 : 0..Max3W, l3 : 0..Max3L, w7 : 0..Max7W,
      l7 : 0..Max7L, wl : 0..MaxLifeW, ll : 0..MaxLifeL ]

InitSmurf ==
    /\ ResolverIdle /\ TrendIdle /\ NormIdle /\ LaterIdle
    /\ h \in Histories
    /\ warning = "unevaluated"

\* One evaluation of the smurf_warning property.
SmurfWarning ==
    /\ warning = "unevaluated"
    /\ warning' = smurf_warning(h)
    /\ UNCHANGED <<h, resolverVars, trendVars, normVars, laterVars>>

NextSmurf == SmurfWarning

SpecSmurf == InitSmurf /\ [][NextSmurf]_vars

(***************************************************************************)
(* Claims about the smurf heuristic (checked under SpecSmurf).             *)
(***************************************************************************)

\* The rules as the specification states them.
Games3 == h.w3 + h.l3
Games7 == h.w7 + h.l7
GamesL == h.wl + h.ll
Rule3Holds == Games3 >= 5 /\ 5 * h.w3 >= 4 * Games3
Rule7Holds == Games7 >= 8 /\ 4 * h.w7 >= 3 * Games7
RuleLHolds == GamesL >= 30 /\ 10 * h.wl >= 7 * GamesL

Evaluated == warning # "unevaluated"

\* C4: one label at most, in the priority order 3-day > 7-day > lifetime:
\* the 3-day rule wins whatever the other windows say, and the 7-day rule
\* wins over the lifetime rule when the 3-day rule does not apply.
C4_Priority ==
    Evaluated =>
        /\ warning \in {LikelySmurf, PossibleSmurf, LifetimeSmurf, NoWarning}
        /\ Rule3Holds => warning = LikelySmurf
        /\ (~Rule3Holds /\ Rule7Holds) => warning = PossibleSmurf

\* C4 witness: all three rules are satisfied and the 3-day label is given.
C4_Witness ==
    Evaluated /\ Rule3Holds /\ Rule7Holds /\ RuleLHolds /\ warning = LikelySmurf

\* C5: the warning equals the reference decision table, with inclusive
\* game-count and win-rate bounds; a window without games never triggers
\* and never divides by zero.
C5_Reference ==
    Evaluated =>
        /\ warning # ZeroDivisionError
        /\ warning = LikelySmurf <=> Rule3Holds
        /\ warning = PossibleSmurf <=> (~Rule3Holds /\ Rule7Holds)
        /\ warning = LifetimeSmurf <=> (~Rule3Holds /\ ~Rule7Holds /\ RuleLHolds)
        /\ warning = NoWarning <=> (~Rule3Holds /\ ~Rule7Holds /\ ~RuleLHolds)
        /\ (Games3 = 0 => warning # LikelySmurf)
        /\ (Games7 = 0 => warning # PossibleSmurf)
        /\ (GamesL = 0 => warning # LifetimeSmurf)

\* C5 witness: 3 wins 2 losses in 3 days (60%) with 6 wins 2 losses in 7
\* days (exactly 8 games, exactly 75%) gives the 7-day label.
C5_Witness ==
    /\ Evaluated
    /\ h.w3 = 3 /\ h.l3 = 2 /\ h.w7 = 6 /\ h.l7 = 2
    /\ warning = PossibleSmurf

(***************************************************************************)
(* Trend classifier: PlayerAnalysis.mmr_trend.                             *)
(***************************************************************************)

\* hist.ratings[-100:]
TrendWindow == 100

\* `len(hist.ratings) < 5`
MinSamples == 5

\* The slice left out: every sample is kept.
LastNAll(s, n) == s

LastN(s, n) == IF Len(s) <= n THEN s ELSE SubSeq(s, Len(s) - n + 1, Len(s))

\* The two summation algorithms of the builtin sum over floats: plain
\* left-to-right addition (CPython up to 3.11) and Neumaier's compensated
\* summation (CPython 3.12 and later).
SumBuilds == { "plain", "compensated" }

\* sum() of a list of ints: the items lo..hi added to acc from left to
\* right.  The range is split in halves and the left half is evaluated
\* (the test on it) before the right half is entered, so the nesting of the
\* evaluation is logarithmic.
RECURSIVE SumIntsLoop(_, _, _, _)
SumIntsLoop(s, lo, hi, acc) ==
    IF lo > hi THEN acc
    ELSE IF lo = hi THEN acc + s[lo]
    ELSE LET mid == (lo + hi) \div 2
             left == SumIntsLoop(s, lo, mid, acc)
         IN  IF left = left THEN SumIntsLoop(s, mid + 1, hi, left) ELSE left

SumInts(s) == SumIntsLoop(s, 1, Len(s), 0)

\* One step of the float loop of sum(): acc is [total, c].
PlainStep(acc, x) == [total |-> FAdd(acc.total, x), c |-> acc.c]

\* The compensated step, t being the new total.
NeumaierNext(acc, x, t) ==
    [total |-> t,
     c |-> IF FCmpAbs(acc.total, x) >= 0
           THEN FAdd(acc.c, FAdd(FSub(acc.total, t), x))
           ELSE FAdd(acc.c, FAdd(FSub(x, t), acc.total))]

NeumaierStep(acc, x) == NeumaierNext(acc, x, FAdd(acc.total, x))

SumStep(algo, acc, x) ==
    IF algo = "plain" THEN PlainStep(acc, x) ELSE NeumaierStep(acc, x)

\* The float loop over the items lo..hi, from left to right, split in
\* halves like SumIntsLoop: SumRest goes on from the result of the left
\* half.
RECURSIVE SumLoop(_, _, _, _, _)
RECURSIVE SumRest(_, _, _, _, _)
SumLoop(algo, items, lo, hi, acc) ==
    IF lo > hi THEN acc
    ELSE IF lo = hi THEN SumStep(algo, acc, items[lo])
    ELSE SumRest(algo, items, ((lo + hi) \div 2) + 1, hi,
                 SumLoop(algo, items, lo, (lo + hi) \div 2, acc))

SumRest(algo, items, lo, hi, left) ==
    IF left = left THEN SumLoop(algo, items, lo, hi, left) ELSE left

\* The end of sum(): the compensation is added if it is not zero.
SumResult(last) ==
    IF FIsZero(last.c) THEN last.total ELSE FAdd(last.total, last.c)

\* sum() of a non-empty list of floats, starting from the int 0: the first
\* item is added to 0, the others go through the float loop.
PySum(algo, items) ==
    SumResult(SumLoop(algo, items, 2, Len(items),
                      [total |-> FAdd(FZero, items[1]), c |-> FZero]))

\* The thresholds of lines 135-143, as the doubles the literals denote.
StrongSlope == FLiteral(15, 10)
WeakSlope == FLiteral(4, 10)

Classify(slope) ==
    IF FCmp(slope, StrongSlope) > 0 THEN "strong rising"
    ELSE IF FCmp(slope, WeakSlope) > 0 THEN "rising"
    ELSE IF FCmp(slope, FNeg(StrongSlope)) < 0 THEN "strong falling"
    ELSE IF FCmp(slope, FNeg(WeakSlope)) < 0 THEN "falling"
    ELSE "flat"

\* `not hist or len(hist.ratings) < 5`
TooFewOffByOne(mh) == ~mh.present \/ Len(mh.ratings) <= MinSamples

TooFew(mh) == ~mh.present \/ Len(mh.ratings) < MinSamples

\* x = list(range(n))
Indices(n) == [ i \in 1..n |-> i - 1 ]

\* sum(s) / n, a true division of two ints.
Mean(s) == FDiv(FFromInt(SumInts(s)), FFromInt(Len(s)))

\* xi - mean_x for every xi (and yi - mean_y for every yi).
Deviations(s, mean) == [ i \in 1..Len(s) |-> FSub(FFromInt(s[i]), mean) ]

\* den == 0 returns "unknown"; slope = num / den otherwise.
SlopeOf(num, den) ==
    [den |-> den, slope |-> IF FIsZero(den) THEN FZero ELSE FDiv(num, den)]

\* num and den of lines 128-129 from the deviations dx and dy.  The index
\* deviations are multiples of one half, so the power (xi - mean_x) ** 2
\* is exact, as their product is.
Regression(dx, dy, algo) ==
    SlopeOf(PySum(algo, [ i \in 1..Len(dx) |-> FMul(dx[i], dy[i]) ]),
            PySum(algo, [ i \in 1..Len(dx) |-> FMul(dx[i], dx[i]) ]))

\* The slope of lines 121-133 over the samples y.
Slope(y, algo) ==
    Regression(Deviations(Indices(Len(y)), Mean(Indices(Len(y)))),
               Deviations(y, Mean(y)), algo)

TrendOf(s) == IF FIsZero(s.den) THEN "unknown" ELSE Classify(s.slope)

mmr_trend(mh, algo) ==
    IF TooFew(mh) THEN "unknown"
    ELSE TrendOf(Slope(LastN(mh.ratings, TrendWindow), algo))

\* The ratings the short match histories are built from.
RatingValues == { 0, 2, 4, 7 }

\* A 27-game climb around 1000 MMR.
LadderClimb ==
    << 1000, 1000, 1005, 1005, 1004, 1005, 1010, 1008, 1010,
       1015, 1013, 1016, 1019, 1017, 1023, 1023, 1023, 1024,
       1028, 1027, 1029, 1033, 1034, 1036, 1034, 1036, 1037 >>

History(r) == [present |-> TRUE, ratings |-> r]

\* player_stats.match_history as mmr_trend may find it: None, or a history
\* of any length (the empty one included).
TrendHistories ==
    { NoHistory } \cup { History(r) : r \in SeqsUpTo(RatingValues, MaxLen) }
                  \cup { History(LadderClimb) }

InitTrend ==
    /\ ResolverIdle
    /\ SmurfIdle
    /\ NormIdle
    /\ LaterIdle
    /\ hist \in TrendHistories
    /\ hist2 = NoHistory
    /\ build \in SumBuilds
    /\ trend = "unevaluated"
    /\ trend2 = "unevaluated"

\* One read of the mmr_trend property.
MmrTrend ==
    /\ trend = "unevaluated"
    /\ trend' = mmr_trend(hist, build)
    /\ UNCHANGED <<hist, hist2, build, trend2, resolverVars, smurfVars,
                   normVars, laterVars>>

NextTrend == MmrTrend

SpecTrend == InitTrend /\ [][NextTrend]_vars

(***************************************************************************)
(* Claims about the trend classifier.                                      *)
(***************************************************************************)
TrendEvaluated == trend # "unevaluated"

Labels == { "strong rising", "rising", "flat", "falling", "strong falling" }

\* The samples mmr_trend selects: the last hundred, or all when fewer.
Recent(s) ==
    LET n == IntMin(Len(s), TrendWindow)
    IN  [ i \in 1..n |-> s[Len(s) - n + i] ]

\* The least-squares slope of y against the index 0..n-1 is SlopeNum(y) /
\* SlopeDen(y), both integers: n * sum(i * y_i) - sum(i) * sum(y_i) over
\* n * sum(i^2) - sum(i)^2.
WeightedSum(y) == SumInts([ i \in 1..Len(y) |-> (i - 1) * y[i] ])

IndexSum(n) == (n * (n - 1)) \div 2

SquareSum(n) == ((n - 1) * n * (2 * n - 1)) \div 6

SlopeNum(y) == Len(y) * WeightedSum(y) - IndexSum(Len(y)) * SumInts(y)

SlopeDen(y) == Len(y) * SquareSum(Len(y)) - IndexSum(Len(y)) * IndexSum(Len(y))

\* The label the exact slope s = N / D earns: s > 1.5 iff 2N > 3D, and
\* s > 0.4 iff 5N > 2D, for D > 0.
ExactLabel(y) ==
    LET N == SlopeNum(y)
        D == SlopeDen(y)
    IN  IF 2 * N > 3 * D THEN "strong rising"
        ELSE IF 5 * N > 2 * D THEN "rising"
        ELSE IF 2 * N < -3 * D THEN "strong falling"
        ELSE IF 5 * N < -2 * D THEN "falling"
        ELSE "flat"

\* C6: over five or more samples mmr_trend returns the label of the exact
\* least-squares slope s of rating against sample index: strong rising iff
\* s > 1.5, rising iff 0.4 < s <= 1.5, strong falling iff s < -1.5, falling
\* iff -1.5 <= s < -0.4, flat otherwise, s exactly 0.4 or -0.4 included.
C6_ExactSlopeLabel ==
    (TrendEvaluated /\ hist.present /\ Len(hist.ratings) >= MinSamples)
        => trend = ExactLabel(Recent(hist.ratings))

\* C7: mmr_trend returns "unknown" whenever the history is missing or holds
\* fewer than five samples, and one of the five labels whenever it holds
\* five or more.
C7_UnknownBelowFive ==
    TrendEvaluated =>
        IF hist.present /\ Len(hist.ratings) >= 5
        THEN trend \in Labels
        ELSE trend = "unknown"

C7_Witness ==
    /\ TrendEvaluated
    /\ hist.present
    /\ Len(hist.ratings) = 5
    /\ trend \in Labels

C7_WitnessFour ==
    /\ TrendEvaluated
    /\ hist.present
    /\ Len(hist.ratings) = 4
    /\ trend = "unknown"


(***************************************************************************)
(* Long histories: two histories that share their most recent hundred      *)
(* samples and differ in the older ones.                                   *)
(***************************************************************************)

\* Quarter-points of MMR gained per game over the window.
WindowSlopes == { -8, -3, -1, 0, 1, 3, 8 }

\* A window of a hundred ratings around 3000 MMR.
Ramp(k) == [ i \in 1..TrendWindow |-> 3000 + (k * i) \div 4 ]

\* The ratings of the games older than the window.
OlderRatings == { 1000 }

InitWindow ==
    /\ ResolverIdle
    /\ SmurfIdle
    /\ NormIdle
    /\ LaterIdle
    /\ build \in SumBuilds
    /\ \E k \in WindowSlopes :
         \E older1, older2 \in SeqsUpTo(OlderRatings, MaxOlder) :
            /\ hist = History(older1 \o Ramp(k))
            /\ hist2 = History(older2 \o Ramp(k))
    /\ trend = "unevaluated"
    /\ trend2 = "unevaluated"

\* The read of mmr_trend on the second history, after the first.
MmrTrendOther ==
    /\ trend # "unevaluated"
    /\ trend2 = "unevaluated"
    /\ trend2' = mmr_trend(hist2, build)
    /\ UNCHANGED <<hist, hist2, build, trend, resolverVars, smurfVars,
                   normVars, laterVars>>

NextWindow == MmrTrend \/ MmrTrendOther

SpecWindow == InitWindow /\ [][NextWindow]_vars

BothEvaluated == trend # "unevaluated" /\ trend2 # "unevaluated"

\* C8: two match histories of at least five samples whose most recent
\* up-to-100 ratings are identical get the same trend label, whatever the
\* older samples are.
C8_RecentOnly ==
    ( /\ BothEvaluated
      /\ hist.present /\ hist2.present
      /\ Len(hist.ratings) >= 5 /\ Len(hist2.ratings) >= 5
      /\ Recent(hist.ratings) = Recent(hist2.ratings) )
        => trend = trend2

C8_Witness ==
    /\ BothEvaluated
    /\ Len(hist.ratings) > TrendWindow
    /\ Len(hist2.ratings) = TrendWindow
    /\ hist.ratings # hist2.ratings
    /\ Recent(hist.ratings) = Recent(hist2.ratings)
    /\ trend = trend2
    /\ trend = "rising"


(***************************************************************************)
(* Rating-history normalizer: PlayerStats.get_match_history.               *)
(***************************************************************************)

\* The instants the API's TIMESTAMP lists are drawn from.
TsValues == { 1, 2 }

\* The rating the API reports in position j of entry e: every observation
\* of a response carries a rating of its own, which tells them apart.
RatingAt(e, j) == 1000 + 10 * e + j

\* A response of k entries: TIMESTAMP and RATING are separate lists and
\* need not be as long as one another; a key that is missing reads as the
\* empty list (`.get(..., [])`).  tss[e] is the TIMESTAMP list of entry e,
\* ms[e] the length of its RATING list.
Response(k, tss, ms) ==
    [ e \in 1..k |->
        [TIMESTAMP |-> tss[e],
         RATING |-> [ j \in 1..ms[e] |-> RatingAt(e, j) ]] ]

\* TeamHistoryPoint.from_raw(ts, rating): the point of that instant and
\* that rating.
FromRaw(ts, rating) == [timestamp |-> ts, rating |-> rating]

\* zip(timestamps, ratings) mapped through from_raw: as many points as the
\* shorter list has items.
ZipPoints(timestamps, ratings) ==
    [ j \in 1..IntMin(Len(timestamps), Len(ratings)) |->
         FromRaw(timestamps[j], ratings[j]) ]

\* Lines 68-75: the points of every entry, in the order of the response.
RECURSIVE MergeFrom(_, _)
MergeFrom(d, e) ==
    IF e > Len(d) THEN << >>
    ELSE ZipPoints(d[e].TIMESTAMP, d[e].RATING) \o MergeFrom(d, e + 1)

Merge(d) == MergeFrom(d, 1)

\* Where a sort that moves equal keys past one another puts the point:
\* before the points of the same timestamp.
InsertBeforeEqual(sorted, p) ==
    LET before == SelectSeq(sorted, LAMBDA q : q.timestamp < p.timestamp)
        after == SelectSeq(sorted, LAMBDA q : q.timestamp >= p.timestamp)
    IN  before \o <<p>> \o after

\* list.sort(key=lambda p: p.timestamp) is stable: a point goes after the
\* points already placed whose timestamp is not later than its own.
InsertPoint(sorted, p) ==
    LET before == SelectSeq(sorted, LAMBDA q : q.timestamp <= p.timestamp)
        after == SelectSeq(sorted, LAMBDA q : q.timestamp > p.timestamp)
    IN  before \o <<p>> \o after

RECURSIVE SortFrom(_, _, _)
SortFrom(points, i, sorted) ==
    IF i > Len(points) THEN sorted
    ELSE SortFrom(points, i + 1, InsertPoint(sorted, points[i]))

\* The list left in the order of the response.
Unsorted(points) == points

SortByTimestamp(points) == SortFrom(points, 1, << >>)

\* Lines 82-87: a point is kept when its timestamp differs from last_ts,
\* which starts as None.
RECURSIVE DedupFrom(_, _, _, _)
DedupFrom(points, i, last_ts, deduped) ==
    IF i > Len(points) THEN deduped
    ELSE IF last_ts # points[i].timestamp
         THEN DedupFrom(points, i + 1, points[i].timestamp,
                        Append(deduped, points[i]))
         ELSE DedupFrom(points, i + 1, last_ts, deduped)

\* The filter with last_ts starting as the first point's timestamp: the
\* earliest instant is dropped at every pass.
DedupSkipFirst(points) ==
    IF points = << >> THEN << >>
    ELSE DedupFrom(points, 1, points[1].timestamp, << >>)

Dedup(points) == DedupFrom(points, 1, None, << >>)

\* What get_match_history returns: None, or the TeamHistory.
NoneHistory == [present |-> FALSE, timestamps |-> << >>, ratings |-> << >>]

get_match_history(d) ==
    LET merged_points == Merge(d)
    IN  IF merged_points = << >> THEN NoneHistory
        ELSE LET deduped == Dedup(SortByTimestamp(merged_points))
             IN  [present |-> TRUE,
                  timestamps |-> [ k \in 1..Len(deduped) |->
                                      deduped[k].timestamp ],
                  ratings |-> [ k \in 1..Len(deduped) |-> deduped[k].rating ]]

InitNormalizer ==
    /\ ResolverIdle
    /\ SmurfIdle
    /\ TrendIdle
    /\ LaterIdle
    /\ \E k \in 0..MaxEntries :
         \E tss \in [1..k -> SeqsUpTo(TsValues, MaxPoints)],
            ms \in [1..k -> 0..MaxPoints] :
            data = Response(k, tss, ms)
    /\ fetched = "idle"
    /\ history = NoneHistory

\* One call of get_match_history.  With no team carrying a legacyUid no
\* request is sent and the call returns None; otherwise `data` is the JSON
\* the request returns.
GetMatchHistory ==
    /\ fetched = "idle"
    /\ \E anyLegacyUid \in BOOLEAN :
         IF anyLegacyUid
         THEN /\ fetched' = "done"
              /\ history' = get_match_history(data)
         ELSE /\ fetched' = "no urls"
              /\ history' = NoneHistory
    /\ UNCHANGED <<data, resolverVars, smurfVars, trendVars, laterVars>>

NextNormalizer == GetMatchHistory

SpecNormalizer == InitNormalizer /\ [][NextNormalizer]_vars

(***************************************************************************)
(* Claims about the normalizer.                                            *)
(***************************************************************************)

\* The positions <<e, j>> of the (timestamp, rating) pairs of the response.
PairPositions ==
    { <<e, j>> \in (1..Len(data)) \X (1..MaxPoints) :
         j <= Len(data[e].TIMESTAMP) /\ j <= Len(data[e].RATING) }

InputTimestamps == { data[p[1]].TIMESTAMP[p[2]] : p \in PairPositions }

StrictlyIncreasing(s) == \A k \in 1..(Len(s) - 1) : s[k] < s[k + 1]

\* C9: the output timestamps are strictly increasing, the timestamps and
\* ratings lists are equally long, and every distinct input timestamp
\* appears exactly once in the output.
C9_SortedDistinctComplete ==
    (fetched = "done" /\ PairPositions # {}) =>
        /\ history.present
        /\ StrictlyIncreasing(history.timestamps)
        /\ Len(history.timestamps) = Len(history.ratings)
        /\ Range(history.timestamps) = InputTimestamps
        /\ Len(history.timestamps) = Cardinality(InputTimestamps)

\* The response holds the later instant before the earlier one and one of
\* them twice; both come out, in order, once each.
C9_Witness ==
    /\ fetched = "done"
    /\ Cardinality(PairPositions) > Cardinality(InputTimestamps)
    /\ Len(data) = MaxEntries
    /\ data[1].TIMESTAMP # << >> /\ data[1].RATING # << >>
    /\ data[1].TIMESTAMP[1] = 2
    /\ history.timestamps = <<1, 2>>

\* The first pair of the merged input, in the order of the response, that
\* carries timestamp ts.
FirstPosition(ts) ==
    LET hits == { p \in PairPositions : data[p[1]].TIMESTAMP[p[2]] = ts }
    IN  CHOOSE p \in hits :
           \A q \in hits : p[1] < q[1] \/ (p[1] = q[1] /\ p[2] <= q[2])

\* C10: when several input pairs share a timestamp, the rating that
\* survives is that of the pair that came first in the merged input order.
C10_FirstObservationWins ==
    (fetched = "done" /\ history.present) =>
        \A k \in 1..Len(history.timestamps) :
            k <= Len(history.ratings) =>
                LET p == FirstPosition(history.timestamps[k])
                IN  history.ratings[k] = data[p[1]].RATING[p[2]]

\* Two responses report the same instant, the second one also an earlier
\* instant: the first response's rating survives for the shared instant.
C10_Witness ==
    /\ fetched = "done"
    /\ Len(data) = 2
    /\ data[1].TIMESTAMP = <<2>> /\ Len(data[1].RATING) >= 1
    /\ data[2].TIMESTAMP = <<2, 1>> /\ Len(data[2].RATING) = 2
    /\ history.timestamps = <<1, 2>>
    /\ history.ratings = <<RatingAt(2, 2), RatingAt(1, 1)>>

\* The (timestamp, rating) pairs of the returned history, as points.
OutputPoints == ZipPoints(history.timestamps, history.ratings)

\* C11: feeding the output pairs back through the same sort and
\* deduplication gives the same sequence again.
C11_Idempotent ==
    (fetched = "done" /\ history.present) =>
        Dedup(SortByTimestamp(OutputPoints)) = OutputPoints

\* A history of two instants was produced from a response that held them
\* out of order and repeated.
C11_Witness ==
    /\ fetched = "done"
    /\ history.present
    /\ Len(OutputPoints) = 2
    /\ Cardinality(PairPositions) > 2
    /\ Dedup(SortByTimestamp(OutputPoints)) = OutputPoints

\* The call was made on empty input: no team carries a legacyUid, or the
\* responses hold no (timestamp, rating) pair.
EmptyInput ==
    \/ fetched = "no urls"
    \/ fetched = "done" /\ PairPositions = {}

\* C12: on empty input the normalizer returns a history that is there and
\* holds the empty sequence of snapshots.
C12_EmptyYieldsEmptySequence ==
    EmptyInput =>
        /\ history.present
        /\ history.timestamps = << >>
        /\ history.ratings = << >>

(***************************************************************************)
(* Claims about analytics on a character without match history.           *)
(***************************************************************************)

\* C15: with no match history the evaluation of smurf_warning ends without
\* an error and gives no warning.
C15_NoHistoryNoWarning ==
    (Evaluated /\ ~h.present) => warning = NoWarning

\* smurf_warning was evaluated on a character whose match_history is None.
C15_Witness ==
    /\ Evaluated
    /\ h = NoWindows
    /\ warning = NoWarning

(***************************************************************************)
(* Windowed aggregator (TeamHistory) and the PlayerAnalysis accessors and  *)
(* summary() that read it.                                                 *)
(***************************************************************************)

MaxEvents == 3    \* win/loss events of one match history

\* The lengths of the windows, in days; timestamps are counted in days too.
WindowDays == [day |-> 1, three_days |-> 3, week |-> 7, month |-> 30]

\* A window that leaves out the event exactly `window` days old.
InWindowOpen(ts, t, window) == t - window < ts /\ ts <= t

\* An event belongs to a window when its timestamp is in [t - window, t].
InWindow(ts, t, window) == t - window <= ts /\ ts <= t

CountEvents(evs, t, window, won) ==
    Cardinality({ i \in 1..Len(evs) :
                     evs[i].won = won /\ InWindow(evs[i].timestamp, t, window) })

CountLifetime(evs, won) ==
    Cardinality({ i \in 1..Len(evs) : evs[i].won = won })

\* The instant of the earliest event, None when there is none.
FirstGamePlayed(evs) ==
    IF evs = << >> THEN None
    ELSE CHOOSE ts \in { evs[i].timestamp : i \in 1..Len(evs) } :
            \A i \in 1..Len(evs) : ts <= evs[i].timestamp

\* The properties of a TeamHistory that PlayerAnalysis reads, at instant t.
TeamHistory(evs, t) ==
    [wins_last_day |-> CountEvents(evs, t, WindowDays.day, TRUE),
     losses_last_day |-> CountEvents(evs, t, WindowDays.day, FALSE),
     wins_last_3_days |-> CountEvents(evs, t, WindowDays.three_days, TRUE),
     losses_last_3_days |-> CountEvents(evs, t, WindowDays.three_days, FALSE),
     wins_last_week |-> CountEvents(evs, t, WindowDays.week, TRUE),
     losses_last_week |-> CountEvents(evs, t, WindowDays.week, FALSE),
     wins_last_month |-> CountEvents(evs, t, WindowDays.month, TRUE),
     losses_last_month |-> CountEvents(evs, t, WindowDays.month, FALSE),
     wins_lifetime |-> CountLifetime(evs, TRUE),
     losses_lifetime |-> CountLifetime(evs, FALSE),
     first_game_played |-> FirstGamePlayed(evs)]

\* Lines 183-221: each accessor returns the property of the same name of
\* player_stats.match_history.
accessors(th) ==
    [wins_last_day |-> th.wins_last_day,
     losses_last_day |-> th.losses_last_day,
     wins_last_3_days |-> th.wins_last_3_days,
     losses_last_3_days |-> th.losses_last_3_days,
     wins_last_week |-> th.wins_last_week,
     losses_last_week |-> th.losses_last_week,
     wins_last_month |-> th.wins_last_month,
     losses_last_month |-> th.losses_last_month,
     wins_lifetime |-> th.wins_lifetime,
     losses_lifetime |-> th.losses_lifetime]

\* How a read or a call ended: not made yet, with an exception, or with a
\* value.
Unread == [outcome |-> "unread"]
Raised(exception) == [outcome |-> exception]
Returned(value) == [outcome |-> "returned", value |-> value]

\* Reading the ten accessors of a PlayerAnalysis: none of them tests
\* match_history, so reading an attribute of None raises AttributeError.
windowed_counts(mh, t) ==
    IF ~mh.present THEN Raised(AttributeError)
    ELSE Returned(accessors(TeamHistory(mh.events, t)))

\* The match history as smurf_warning reads it.
SmurfView(mh, c) ==
    [present |-> mh.present,
     w3 |-> c.wins_last_3_days, l3 |-> c.losses_last_3_days,
     w7 |-> c.wins_last_week, l7 |-> c.losses_last_week,
     wl |-> c.wins_lifetime, ll |-> c.losses_lifetime]

\* Rating series of the match histories explored, and mmr_trend of each
\* under each summation, computed once.
AnalysisRatings == { << >>, <<1000, 1002, 1004, 1007, 1007>> }

Trends ==
    [ rs \in AnalysisRatings |->
        [ algo \in SumBuilds |->
            mmr_trend([present |-> TRUE, ratings |-> rs], algo) ] ]

SummaryOf(mh, c, first, algo) ==
    [first_game_played |-> first,
     trend |-> Trends[mh.ratings][algo],
     smurf_warning |-> smurf_warning(SmurfView(mh, c)),
     counts |-> c]

\* Lines 252-278: summary() reads first_game_played at line 265, before it
\* builds the dictionary; the entries that come from the match history are
\* kept.
summary(mh, t, algo) ==
    IF ~mh.present THEN Raised(AttributeError)
    ELSE Returned(SummaryOf(mh, accessors(TeamHistory(mh.events, t)),
                            TeamHistory(mh.events, t).first_game_played,
                            algo))

\* Instants around the edges of the windows of the instants of Nows.
EventTimes == { 0, 1, 24, 28, 30, 32 }
Nows == { 31, 32 }
Events == [timestamp : EventTimes, won : BOOLEAN]

NoMatchHistory == [present |-> FALSE, events |-> << >>, ratings |-> << >>]

InitAnalysis ==
    /\ ResolverIdle /\ SmurfIdle /\ TrendIdle /\ NormIdle /\ TeammatesIdle
    /\ PollerIdle /\ MoreIdle
    /\ \/ match_history = NoMatchHistory
       \/ \E k \in 0..MaxEvents :
            \E evs \in [1..k -> Events], rs \in AnalysisRatings :
               match_history = [present |-> TRUE, events |-> evs,
                                ratings |-> rs]
    /\ now \in Nows
    /\ counts = Unread
    /\ report = Unread

\* One read of each of the ten windowed accessors.
ReadCounts ==
    /\ counts = Unread
    /\ counts' = windowed_counts(match_history, now)
    /\ UNCHANGED <<match_history, now, report, resolverVars, smurfVars,
                   trendVars, normVars, teammateVars, pollerVars, moreVars>>

\* One call of summary().
Summary ==
    /\ report = Unread
    /\ \E algo \in SumBuilds :
         report' = summary(match_history, now, algo)
    /\ UNCHANGED <<match_history, now, counts, resolverVars, smurfVars,
                   trendVars, normVars, teammateVars, pollerVars, moreVars>>

NextAnalysis == ReadCounts \/ Summary

SpecAnalysis == InitAnalysis /\ [][NextAnalysis]_vars

(***************************************************************************)
(* Claims about the windowed counts.                                       *)
(***************************************************************************)

CountsRead == counts.outcome = "returned"

\* The events of the history that carry the outcome `won` and lie within
\* `window` days before now.
EventsWithin(window, won) ==
    { i \in 1..Len(match_history.events) :
         /\ match_history.events[i].won = won
         /\ now - window <= match_history.events[i].timestamp
         /\ match_history.events[i].timestamp <= now }

\* C13: each accessor returns the number of events of its window, lifetime
\* the number of all events, and the counts grow with the window: 1d <= 3d
\* <= 7d <= 30d <= lifetime, for wins and for losses.
C13_MonotoneWindows ==
    CountsRead =>
        LET c == counts.value
        IN  /\ c.wins_last_day = Cardinality(EventsWithin(1, TRUE))
            /\ c.wins_last_3_days = Cardinality(EventsWithin(3, TRUE))
            /\ c.wins_last_week = Cardinality(EventsWithin(7, TRUE))
            /\ c.wins_last_month = Cardinality(EventsWithin(30, TRUE))
            /\ c.wins_lifetime =
                  Cardinality({ i \in 1..Len(match_history.events) :
                                   match_history.events[i].won })
            /\ c.losses_last_day = Cardinality(EventsWithin(1, FALSE))
            /\ c.losses_last_3_days = Cardinality(EventsWithin(3, FALSE))
            /\ c.losses_last_week = Cardinality(EventsWithin(7, FALSE))
            /\ c.losses_last_month = Cardinality(EventsWithin(30, FALSE))
            /\ c.losses_lifetime =
                  Cardinality({ i \in 1..Len(match_history.events) :
                                   ~match_history.events[i].won })
            /\ c.wins_last_day <= c.wins_last_3_days
            /\ c.wins_last_3_days <= c.wins_last_week
            /\ c.wins_last_week <= c.wins_last_month
            /\ c.wins_last_month <= c.wins_lifetime
            /\ c.losses_last_day <= c.losses_last_3_days
            /\ c.losses_last_3_days <= c.losses_last_week
            /\ c.losses_last_week <= c.losses_last_month
            /\ c.losses_last_month <= c.losses_lifetime

\* Three wins, one in the last day, one on the edge of the week and one
\* after now: the counts differ from window to window.
C13_Witness ==
    /\ CountsRead
    /\ now = 31
    /\ Len(match_history.events) = 3
    /\ counts.value.wins_last_day = 1
    /\ counts.value.wins_last_3_days = 1
    /\ counts.value.wins_last_week = 2
    /\ counts.value.wins_last_month = 2
    /\ counts.value.wins_lifetime = 3

ZeroCounts == accessors(TeamHistory(<< >>, now))

\* C14: for a character without match history the ten windowed accessors
\* return zero, and summary() returns zero counts and the trend "unknown";
\* neither ends with an exception.
C14_NoHistoryZeroCounts ==
    ~match_history.present =>
        /\ counts.outcome # "unread" => counts = Returned(ZeroCounts)
        /\ report.outcome # "unread" =>
              /\ report.outcome = "returned"
              /\ report.value.counts = ZeroCounts
              /\ report.value.trend = "unknown"

(***************************************************************************)
(* Teammate tracker: PlayerAnalysis.teammates.                             *)
(***************************************************************************)

MaxHistTeams == 2    \* historical teams of the character

\* Positions of the entry of name n in the table, a list of entries in
\* insertion order as the dict keeps them.
EntryOf(result, n) == { k \in 1..Len(result) : result[k].name = n }

\* result.setdefault(n, {"count": 0, "last_played": None})
SetDefault(result, n) ==
    IF EntryOf(result, n) # {} THEN result
    ELSE Append(result, [name |-> n, count |-> 0, last_played |-> None])

\* Lines 246-248: the count goes up by one and last_played becomes ts when
\* it was None or ts is later.
Bump(result, n, ts) ==
    [ k \in 1..Len(result) |->
        IF result[k].name # n THEN result[k]
        ELSE [name |-> n,
              count |-> result[k].count + 1,
              last_played |->
                 IF result[k].last_played = None \/ ts > result[k].last_played
                 THEN ts ELSE result[k].last_played] ]

\* Lines 241-248: the members of one team, the character itself skipped.
RECURSIVE MemberLoop(_, _, _, _, _)
MemberLoop(members, j, ts, own, result) ==
    IF j > Len(members) THEN result
    ELSE IF members[j] = own
         THEN MemberLoop(members, j + 1, ts, own, result)
         ELSE MemberLoop(members, j + 1, ts, own,
                         Bump(SetDefault(result, members[j]), members[j], ts))

\* Lines 232-248: the teams in order; a team without lastPlayed is skipped.
RECURSIVE TeamLoop(_, _, _, _)
TeamLoop(tl, i, own, result) ==
    IF i > Len(tl) THEN result
    ELSE IF tl[i].lastPlayed = << >>
         THEN TeamLoop(tl, i + 1, own, result)
         ELSE TeamLoop(tl, i + 1, own,
                       MemberLoop(tl[i].members, 1,
                                  FromIsoFormat(ReplaceZ(tl[i].lastPlayed)),
                                  own, result))

\* Lines 223-250: an empty table when match_history is None, the table of
\* the loop otherwise.
teammates(tl, own, present) ==
    IF ~present THEN Returned(<< >>)
    ELSE Returned(TeamLoop(tl, 1, own, << >>))

\* The member names of the teams explored: with and without the character
\* itself, and with two members of one name.
Rosters ==
    { <<"me", "a">>, <<"b", "me">>, <<"a", "b">>, <<"me", "b", "a">>,
      <<"me", "b", "b">> }

HistoricalTeams == [lastPlayed : LastPlayedValues, members : Rosters]

InitTeammates ==
    /\ ResolverIdle /\ SmurfIdle /\ TrendIdle /\ NormIdle /\ AnalysisIdle
    /\ PollerIdle /\ MoreIdle
    /\ \E k \in 0..MaxHistTeams : team_list \in [1..k -> HistoricalTeams]
    /\ my_name \in {"me", "a"}
    /\ available \in BOOLEAN
    /\ available2 \in BOOLEAN
    /\ table = Unread
    /\ table2 = Unread

\* One read of the teammates property.
Teammates ==
    /\ table = Unread
    /\ table' = teammates(team_list, my_name, available)
    /\ UNCHANGED <<team_list, my_name, available, available2, table2,
                   resolverVars, smurfVars, trendVars, normVars,
                   analysisVars, pollerVars, moreVars>>

\* The same read on the second PlayerAnalysis of the character.
TeammatesOther ==
    /\ table2 = Unread
    /\ table2' = teammates(team_list, my_name, available2)
    /\ UNCHANGED <<team_list, my_name, available, available2, table,
                   resolverVars, smurfVars, trendVars, normVars,
                   analysisVars, pollerVars, moreVars>>

NextTeammates == Teammates \/ TeammatesOther

SpecTeammates == InitTeammates /\ [][NextTeammates]_vars

(***************************************************************************)
(* Claims about the teammate tracker.                                      *)
(***************************************************************************)

TableRead == table.outcome = "returned"

\* The teams that carry a last-played timestamp and have a member named n.
TimedTeamsWith(n) ==
    { i \in 1..Len(team_list) :
         /\ team_list[i].lastPlayed # << >>
         /\ \E j \in 1..Len(team_list[i].members) :
               team_list[i].members[j] = n }

TeammateNames ==
    { n \in {"me", "a", "b"} : n # my_name /\ TimedTeamsWith(n) # {} }

\* Where name n is first seen: the first timestamped team holding it and
\* its first position there.
FirstSeen(n) ==
    LET i == CHOOSE x \in TimedTeamsWith(n) :
                \A y \in TimedTeamsWith(n) : x <= y
        j == CHOOSE x \in 1..Len(team_list[i].members) :
                /\ team_list[i].members[x] = n
                /\ \A y \in 1..(x - 1) : team_list[i].members[y] # n
    IN  <<i, j>>

SeenBefore(n, m) ==
    \/ FirstSeen(n)[1] < FirstSeen(m)[1]
    \/ FirstSeen(n)[1] = FirstSeen(m)[1] /\ FirstSeen(n)[2] < FirstSeen(m)[2]

LatestOf(n) ==
    CHOOSE t \in { team_list[i].lastPlayed[1] : i \in TimedTeamsWith(n) } :
       \A i \in TimedTeamsWith(n) : team_list[i].lastPlayed[1] <= t

\* C16: the table has one entry for every name other than the character's
\* own that is in a timestamped team, with count the number of those teams
\* and last_played the latest of their timestamps; nothing else is a key,
\* and the keys are in first-seen order.
C16_TeammateTable ==
    TableRead =>
        /\ { table.value[k].name : k \in 1..Len(table.value) } = TeammateNames
        /\ \A k \in 1..Len(table.value) :
              /\ table.value[k].count =
                    Cardinality(TimedTeamsWith(table.value[k].name))
              /\ table.value[k].last_played = LatestOf(table.value[k].name)
        /\ \A k, l \in 1..Len(table.value) :
              k < l => SeenBefore(table.value[k].name, table.value[l].name)

\* C17: two reads of the table for the same team list and the same name
\* give the same table, whether or not a match history is there.
C17_TableIgnoresHistory ==
    (TableRead /\ table2.outcome = "returned") => table = table2

(***************************************************************************)
(* Game poller: GamePoller.poll_once and its handlers, the hotkey, the     *)
(* game client, and one pass of the briefer's poll_games.                  *)
(***************************************************************************)

MaxLog == 2    \* rows of the player_log table

UpstreamError == "HTTPError"
NoTeamFound == "NoTeamFound"

\* Which handler a poll ran, how it ended, for which players
\* get_player_stats was called, the records it returned, and the
\* min_mmr and max_mmr it passed.
NoRange == [min |-> 0, max |-> 0]

Tick(handler, ending, attempted, stats) ==
    [handler |-> handler, outcome |-> ending, attempted |-> attempted,
     stats |-> stats, mmr_range |-> NoRange]

NoHandler == Tick("none", "returned", << >>, << >>)

\* GamePoller.previous_state: None, the tuple of the players' names, or the
\* string "{}" the hotkey stores.
PrevNone == [kind |-> "None", state |-> << >>]
PrevStr == [kind |-> "str", state |-> << >>]
PrevTuple(state) == [kind |-> "tuple", state |-> state]

NoTeamAnalysis == [present |-> FALSE, merged |-> << >>]

\* Team.merge(found): the team merged from the teams of `found`.
TeamMerge(found) == [present |-> TRUE, merged |-> found]

\* battlenetId of the characters the stats API knows.
IdOf == [me |-> 10, ally |-> 11, x |-> 1, y |-> 2, z |-> 3]

\* The historical teams of a resolved character, as lists of member ids.
TeamLists == { << >>, << <<2, 1>>, <<10, 2, 1>>, <<10, 1>>, <<2, 11>> >> }

\* The calls of get_player_stats for the players of opps, in order, up to
\* the first one that raises.
RECURSIVE ResolveFrom(_, _, _, _, _, _)
ResolveFrom(handler, opps, outcomes, i, attempted, stats) ==
    IF i > Len(opps) THEN Tick(handler, "returned", attempted, stats)
    ELSE IF outcomes[i].outcome # "returned"
         THEN Tick(handler, outcomes[i].outcome, Append(attempted, opps[i]),
                   stats)
         ELSE ResolveFrom(handler, opps, outcomes, i + 1,
                          Append(attempted, opps[i]),
                          Append(stats, outcomes[i].value))

ResolveAll(handler, opps, outcomes) ==
    ResolveFrom(handler, opps, outcomes, 1, << >>, << >>)

\* sorted(...) of a list of ids.
InsertId(sorted, id) ==
    SelectSeq(sorted, LAMBDA q : q <= id) \o <<id>> \o
    SelectSeq(sorted, LAMBDA q : q > id)

RECURSIVE SortedFrom(_, _, _)
SortedFrom(ids, i, sorted) ==
    IF i > Len(ids) THEN sorted
    ELSE SortedFrom(ids, i + 1, InsertId(sorted, ids[i]))

Sorted(ids) == SortedFrom(ids, 1, << >>)

\* The comparison with the team's ids left in the order of the API.
SameRosterUnsorted(team, ids) == team = ids

\* teams.py lines 37-38: tids = sorted(member ids); tids == ids.
SameRoster(team, ids) == Sorted(team) = ids

\* teams.py lines 35-39: the teams of every player, in order, whose sorted
\* member ids equal ids.
RECURSIVE FoundInTeams(_, _, _, _)
FoundInTeams(teams, j, ids, found) ==
    IF j > Len(teams) THEN found
    ELSE FoundInTeams(teams, j + 1, ids,
                      IF SameRoster(teams[j], ids)
                      THEN Append(found, teams[j]) ELSE found)

RECURSIVE FoundFrom(_, _, _, _)
FoundFrom(stats, i, ids, found) ==
    IF i > Len(stats) THEN found
    ELSE FoundFrom(stats, i + 1, ids,
                   FoundInTeams(stats[i].teams, 1, ids, found))

BattlenetIds(stats) == [ i \in 1..Len(stats) |-> stats[i].battlenetId ]

FoundTeams(stats) == FoundFrom(stats, 1, Sorted(BattlenetIds(stats)), << >>)

\* teams.py lines 31-43.
FromFound(found) ==
    IF found = << >> THEN Raised(NoTeamFound)
    ELSE Returned(TeamMerge(found))

from_players_stats(stats) == FromFound(FoundTeams(stats))

\* service.py line 124: `p.get("name") == self.config.me` compares a str
\* with the Me object, which is never equal.
EqualsConfigMe(cfg, n) == FALSE

\* service.py lines 123-126 and 97-98: the player counts as one of my team.
InMyTeam(cfg, n) == EqualsConfigMe(cfg, n) \/ n \in cfg.team.members

Names(players) == [ i \in 1..Len(players) |-> players[i].name ]

\* _split_teams: the players that are not of my team, in order.
opp_team(cfg, players) ==
    SelectSeq(players, LAMBDA p : ~InMyTeam(cfg, p.name))

\* _is_new_game line 82: the tuple of (name, race) of the players.
StateOf(players) ==
    [ i \in 1..Len(players) |-> <<players[i].name, players[i].race>> ]

\* _is_game_end: some player has a final result.
FinalResults == { "Victory", "Defeat", "Tie" }
is_game_end(players) ==
    \E i \in 1..Len(players) : players[i].result \in FinalResults

\* str.lower() of a result.
Lower(result) ==
    CASE result = "Victory" -> "victory"
      [] result = "Defeat" -> "defeat"
      [] result = "Tie" -> "tie"
      [] OTHER -> "undecided"

\* What the overlays, team_analysis and the log are after a handler, and
\* how its resolutions went.
Handled(open, analysis, rows, t) ==
    [overlays |-> open, team_analysis |-> analysis, player_log |-> rows,
     tick |-> t]

\* _show_opponent_history: the history overlay, unless from_battlenet_id
\* finds no row and raises ValueError.
HistoryOverlay(rows, id) ==
    IF \E k \in 1..Len(rows) : rows[k].battlenet_id = id
    THEN {"history"} ELSE {}

\* _handle_1v1, t being how the call of get_player_stats went.
handle_1v1(t, open, analysis, rows) ==
    IF t.outcome # "returned" THEN Handled(open, analysis, rows, t)
    ELSE Handled(open \cup HistoryOverlay(rows, t.stats[1].battlenetId)
                      \cup {"player"},
                 analysis, rows, t)

\* Lines 206-217 and 230-239: team_analysis is assigned, then its
\* show_overlay is called with delay_seconds, a keyword the method of
\* teams.py lines 133-138 does not take: TypeError, before any overlay is
\* built, and `except NoTeamFound` does not catch it.  When
\* from_players_stats raises NoTeamFound only the warning is logged.
TeamOverlay(made, open, analysis, rows, t) ==
    IF made.outcome = "returned"
    THEN Handled(open, made.value, rows, [t EXCEPT !.outcome = "TypeError"])
    ELSE Handled(open, analysis, rows, t)

\* _handle_2v2, t being how the two calls of get_player_stats went.
handle_2v2(t, open, analysis, rows) ==
    IF t.outcome # "returned" THEN Handled(open, analysis, rows, t)
    ELSE TeamOverlay(from_players_stats(t.stats), open \cup {"2v2"},
                     analysis, rows, t)

\* _handle_team_game.
handle_team_game(t, open, analysis, rows) ==
    IF t.outcome # "returned" THEN Handled(open, analysis, rows, t)
    ELSE TeamOverlay(from_players_stats(t.stats), open, analysis, rows, t)

\* player_log.py line 66: the statuses a row may have.
MatchStatuses == { "victory", "defeat", "tie" }

\* The row written over the most recent one.
SaveRowOver(rows, st, status) ==
    IF rows = << >>
    THEN Append(rows, [battlenet_id |-> st.battlenetId,
                       match_status |-> status, mmr |-> st.rating])
    ELSE [rows EXCEPT ![Len(rows)] =
             [battlenet_id |-> st.battlenetId, match_status |-> status,
              mmr |-> st.rating]]

\* Lines 106-117 of _handle_game_end: the row is saved unless the most
\* recent row is of the same battlenetId.
SaveRow(rows, st, status) ==
    IF rows = << >> \/ rows[Len(rows)].battlenet_id # st.battlenetId
    THEN Append(rows, [battlenet_id |-> st.battlenetId,
                       match_status |-> status, mmr |-> st.rating])
    ELSE rows

\* The loop of _handle_game_end over the players that are not of my team:
\* get_player_stats, then PlayerLog.from_player_stats, which raises
\* ValueError for a status other than victory, defeat or tie and for a
\* rating that is None, then save.
RECURSIVE GameEndFrom(_, _, _, _, _, _, _)
GameEndFrom(opps, outcomes, i, analysis, rows, attempted, stats) ==
    IF i > Len(opps)
    THEN Handled({}, analysis, rows,
                 Tick("_handle_game_end", "returned", attempted, stats))
    ELSE IF outcomes[i].outcome # "returned"
    THEN Handled({}, analysis, rows,
                 Tick("_handle_game_end", outcomes[i].outcome,
                      Append(attempted, opps[i].name), stats))
    ELSE IF Lower(opps[i].result) \notin MatchStatuses
            \/ outcomes[i].value.rating = None
    THEN Handled({}, analysis, rows,
                 Tick("_handle_game_end", "ValueError",
                      Append(attempted, opps[i].name),
                      Append(stats, outcomes[i].value)))
    ELSE GameEndFrom(opps, outcomes, i + 1, analysis,
                     SaveRow(rows, outcomes[i].value,
                             Lower(opps[i].result)),
                     Append(attempted, opps[i].name),
                     Append(stats, outcomes[i].value))

\* _handle_game_end: close_all_overlays, then the loop.
handle_game_end(opps, outcomes, analysis, rows) ==
    GameEndFrom(opps, outcomes, 1, analysis, rows, << >>, << >>)

\* Lines 57-66: the handler for the number of opponents.
Dispatch(opps, outcomes, analysis, rows) ==
    IF opps = << >>
    THEN Handled({}, analysis, rows, NoHandler)
    ELSE IF Len(opps) = 1
    THEN handle_1v1(ResolveAll("_handle_1v1", Names(opps), outcomes), {},
                    analysis, rows)
    ELSE IF Len(opps) = 2
    THEN handle_2v2(ResolveAll("_handle_2v2", Names(opps), outcomes), {},
                    analysis, rows)
    ELSE handle_team_game(ResolveAll("_handle_team_game", Names(opps),
                                     outcomes),
                          {}, analysis, rows)

\* The min_mmr and max_mmr each handler passes to get_player_stats:
\* lines 139-140, 185-190, 224-225 and 95-96.
hint_1v1(cfg) == [min |-> cfg.me.mmr - 500, max |-> cfg.me.mmr + 500]
hint_2v2(cfg) == [min |-> cfg.me.mmr - 500, max |-> cfg.me.mmr + 500]
hint_team_game(cfg) == [min |-> cfg.me.mmr - 500, max |-> cfg.me.mmr]
hint_game_end(cfg) == [min |-> cfg.me.mmr - 500, max |-> cfg.me.mmr + 500]

HintOf(cfg, handler) ==
    CASE handler = "_handle_1v1" -> hint_1v1(cfg)
      [] handler = "_handle_2v2" -> hint_2v2(cfg)
      [] handler = "_handle_team_game" -> hint_team_game(cfg)
      [] handler = "_handle_game_end" -> hint_game_end(cfg)
      [] OTHER -> NoRange

WithRange(cfg, t) ==
    IF t.attempted = << >> THEN t
    ELSE [t EXCEPT !.mmr_range = HintOf(cfg, t.handler)]

WithPrevious(r, prev) ==
    [previous_state |-> prev, overlays |-> r.overlays,
     team_analysis |-> r.team_analysis, player_log |-> r.player_log,
     tick |-> r.tick]

\* The comparison of the names alone.
is_new_game_by_name(players, prev) ==
    \/ prev.kind # "tuple"
    \/ [ i \in 1..Len(prev.state) |-> prev.state[i][1] ] # Names(players)

\* _is_new_game, lines 82-83: the state differs from previous_state.
is_new_game(players, prev) == PrevTuple(StateOf(players)) # prev

\* The body of poll_once, `players` being what the game client reports
\* (the empty list when the request fails or reports nobody) and `outcomes`
\* how the calls of get_player_stats go.
Polled(cfg, players, outcomes, prev, open, analysis, rows) ==
    IF players = << >>
    THEN WithPrevious(Handled(open, analysis, rows,
                              NoHandler), prev)
    ELSE IF is_game_end(players)
    THEN WithPrevious(handle_game_end(opp_team(cfg, players), outcomes,
                                      analysis, rows), prev)
    ELSE IF ~is_new_game(players, prev)
    THEN WithPrevious(Handled(open, analysis, rows,
                              NoHandler), prev)
    ELSE WithPrevious(Dispatch(opp_team(cfg, players), outcomes, analysis,
                               rows),
                      PrevTuple(StateOf(players)))

\* poll_once, with the range its handler passed to get_player_stats.
poll_once(cfg, players, outcomes, prev, open, analysis, rows) ==
    [Polled(cfg, players, outcomes, prev, open, analysis, rows)
        EXCEPT !.tick = WithRange(cfg, @)]

\* The briefer's poll_games, one pass of its loop: only a game of two
\* players is looked at; the players named config.me.name or listed in
\* config.team.members are skipped; reading player_stats.match_history
\* (line 34), an attribute PlayerStats does not have, raises AttributeError
\* after the first player resolved; `except Exception` ends the pass.
BrieferOpponents(cfg, players) ==
    SelectSeq(players,
              LAMBDA p : p.name # cfg.me.name /\ p.name \notin cfg.team.members)

BrieferPass(t) ==
    IF t.attempted = << >> THEN t
    ELSE IF t.outcome # "returned"
    THEN t
    ELSE Tick("poll_games", AttributeError, t.attempted, t.stats)

FirstOnly(opps, outcomes) ==
    IF opps = << >> THEN NoHandler
    ELSE ResolveAll("poll_games", <<opps[1]>>, outcomes)

poll_games(cfg, players, outcomes) ==
    IF Len(players) # 2 THEN NoHandler
    ELSE BrieferPass(FirstOnly(Names(BrieferOpponents(cfg, players)),
                               outcomes))

\* config.team.members without and with the user's own name.
Configs ==
    { [me |-> [name |-> "me", mmr |-> 3000], team |-> [members |-> ms]] :
         ms \in { {"ally"}, {"me", "ally"} } }

Undecided(names) ==
    [ i \in 1..Len(names) |->
        [name |-> names[i], race |-> "Terr", result |-> "Undecided"] ]
Decided(names) ==
    [ i \in 1..Len(names) |->
        [name |-> names[i], race |-> "Terr",
         result |-> IF names[i] \in {"me", "ally"} THEN "Victory"
                    ELSE "Defeat"] ]

\* The same players, the last of them playing another race.
OffRace(players) ==
    [ i \in 1..Len(players) |->
        IF i = Len(players) THEN [players[i] EXCEPT !.race = "Zerg"]
        ELSE players[i] ]

\* What the game client may report: nothing, or a 1v1 of the user, a 1v1
\* of two others or a 2v2, under way or finished.
GameRosters == { <<"me", "x">>, <<"x", "y">>, <<"me", "ally", "x", "y">> }
Games ==
    { << >> } \cup { Undecided(names) : names \in GameRosters }
              \cup { Decided(names) : names \in GameRosters }

\* What one call of get_player_stats may do: raise on a failed request,
\* raise IndexError when the search returns nothing, or return a record
\* with some list of historical teams.
Found(tl, rating) == Returned([teams |-> tl, rating |-> rating])

Choices ==
    { Raised(UpstreamError), Raised(NotFound) } \cup
    { Found(tl, 3000) : tl \in TeamLists }

Resolution(n, choice) ==
    IF choice.outcome = "returned"
    THEN Returned([name |-> n, battlenetId |-> IdOf[n],
                   teams |-> choice.value.teams,
                   rating |-> choice.value.rating])
    ELSE choice

OutcomesOf(opps, choices) ==
    [ i \in 1..Len(choices) |-> Resolution(opps[i].name, choices[i]) ]

InitPoller ==
    /\ ResolverIdle /\ SmurfIdle /\ TrendIdle /\ NormIdle
    /\ AnalysisIdle /\ TeammatesIdle /\ MoreIdle
    /\ config \in Configs
    /\ game \in Games
    /\ previous_state = PrevNone
    /\ overlays = {}
    /\ team_analysis = NoTeamAnalysis
    /\ player_log = << >>
    /\ tick = Tick("none", "idle", << >>, << >>)
    /\ briefing = Tick("none", "idle", << >>, << >>)
    /\ lookups = 0

elsewhere ==
    <<resolverVars, smurfVars, trendVars, normVars, analysisVars,
      teammateVars, moreVars>>

Commit(r, cap) ==
    /\ Len(r.player_log) <= cap
    /\ previous_state' = r.previous_state
    /\ overlays' = r.overlays
    /\ team_analysis' = r.team_analysis
    /\ player_log' = r.player_log
    /\ tick' = r.tick
    /\ lookups' = IF r.tick.attempted = << >> THEN lookups ELSE 1 - lookups

\* The players for which poll_once calls get_player_stats: those of the
\* other team, when the game has ended or is a new one.
Resolved(cfg, players, prev) ==
    IF players = << >> THEN << >>
    ELSE IF is_game_end(players) \/ is_new_game(players, prev)
    THEN opp_team(cfg, players)
    ELSE << >>

\* One firing of the timer: poll_once runs to its end.  The poller and the
\* briefer are two programs; a behaviour is of one of them.
Poll(answers, cap) ==
    /\ \E choices \in
            [1..Len(Resolved(config, game, previous_state)) -> answers] :
         Commit(poll_once(config, game,
                          OutcomesOf(opp_team(config, game), choices),
                          previous_state, overlays, team_analysis,
                          player_log), cap)
    /\ UNCHANGED <<config, game, briefing, elsewhere>>

PollOnce ==
    /\ briefing.outcome = "idle"
    /\ Poll(Choices, MaxLog)

\* The hotkey ctrl+f1.
OnCtrlF1 ==
    /\ previous_state' = PrevStr
    /\ UNCHANGED <<config, game, overlays, team_analysis, player_log, tick,
                   briefing, lookups, elsewhere>>

\* The game client reports another state.
Reports(games) ==
    /\ game' \in games \ {game}
    /\ UNCHANGED <<config, previous_state, overlays, team_analysis,
                   player_log, tick, briefing, lookups, elsewhere>>

GameChanges == Reports(Games)

\* The player for which a pass of poll_games calls get_best_match.
BriefedFirst(cfg, players) ==
    IF Len(players) # 2 THEN << >>
    ELSE SubSeq(BrieferOpponents(cfg, players), 1, 1)

\* One pass of the loop of the briefer's poll_games.
PollGames ==
    /\ tick.outcome = "idle"
    /\ \E choices \in [1..Len(BriefedFirst(config, game)) -> Choices] :
         briefing' = poll_games(config, game,
                                OutcomesOf(BriefedFirst(config, game),
                                           choices))
    /\ UNCHANGED <<config, game, previous_state, overlays, team_analysis,
                   player_log, tick, lookups, elsewhere>>

NextPoller == PollOnce \/ OnCtrlF1 \/ GameChanges \/ PollGames

SpecPoller == InitPoller /\ [][NextPoller]_vars

\* The poller alone, its timer firing again and again (QTimer, every five
\* seconds).
NextGamePoller == PollOnce \/ OnCtrlF1 \/ GameChanges

SpecPollerFair ==
    InitPoller /\ [][NextGamePoller]_vars /\ WF_vars(PollOnce)

(***************************************************************************)
(* The poller over several games in a row: the stats API answers with a    *)
(* rated or an unrated character without teams, or fails; the log may      *)
(* grow by one more row.                                                   *)
(***************************************************************************)

MaxRows == 4    \* rows of the player_log table over several games

JournalRosters == { <<"me", "x">>, <<"me", "ally", "x", "y">> }

\* Nothing, a 1v1 or a 2v2 of the user, under way or finished, the 1v1
\* with the opponent on another race, and a game of the user against
\* three others under way.
JournalGames ==
    { << >> } \cup { Undecided(names) : names \in JournalRosters }
              \cup { Decided(names) : names \in JournalRosters }
              \cup { OffRace(Undecided(<<"me", "x">>)) }
              \cup { Undecided(<<"me", "x", "y", "z">>) }

JournalChoices ==
    { Raised(UpstreamError), Found(<< >>, 3000), Found(<< >>, None) }

InitJournal ==
    /\ ResolverIdle /\ SmurfIdle /\ TrendIdle /\ NormIdle
    /\ AnalysisIdle /\ TeammatesIdle /\ MoreIdle
    /\ config \in Configs
    /\ game \in JournalGames
    /\ previous_state = PrevNone
    /\ overlays = {}
    /\ team_analysis = NoTeamAnalysis
    /\ player_log = << >>
    /\ tick = Tick("none", "idle", << >>, << >>)
    /\ briefing = Tick("none", "idle", << >>, << >>)
    /\ lookups = 0

\* One firing of the timer.
PollJournal == Poll(JournalChoices, MaxRows)

\* The game client reports another state.
ReportsJournal == Reports(JournalGames)

NextJournal == PollJournal \/ OnCtrlF1 \/ ReportsJournal

SpecJournal == InitJournal /\ [][NextJournal]_vars

\* The timer fires again and again (QTimer, every five seconds).
SpecJournalFair ==
    InitJournal /\ [][NextJournal]_vars /\ WF_vars(PollJournal)

(***************************************************************************)
(* Claims about the poller.                                                *)
(***************************************************************************)

\* The last poll resolved every opponent of a new 2v2 or team game.
TeamStart ==
    /\ tick.handler \in {"_handle_2v2", "_handle_team_game"}
    /\ Len(tick.stats) = Len(tick.attempted)

CountOf(s, v) == Cardinality({ k \in 1..Len(s) : s[k] = v })

\* The two lists hold the same ids, each as many times.
SameMultiset(a, b) ==
    \A v \in Range(a) \cup Range(b) : CountOf(a, v) = CountOf(b, v)

\* The positions <<i, j>> of the historical teams of the resolved players
\* whose member ids are those of the roster.
MatchingTeams ==
    { p \in (1..Len(tick.stats)) \X (1..4) :
         /\ p[2] <= Len(tick.stats[p[1]].teams)
         /\ SameMultiset(tick.stats[p[1]].teams[p[2]],
                         BattlenetIds(tick.stats)) }

Earlier(p, q) == p[1] < q[1] \/ (p[1] = q[1] /\ p[2] <= q[2])

\* The k-th matching team, in the order of the players and of their teams.
KthMatching(k) ==
    LET p == CHOOSE q \in MatchingTeams :
                Cardinality({ r \in MatchingTeams : Earlier(r, q) }) = k
    IN  tick.stats[p[1]].teams[p[2]]

\* C18: with every opponent resolved, when no historical team of a
\* resolved player has the ids of the roster no team is made, no team
\* overlay is shown and the poll ends without an exception; otherwise the
\* team is merged from exactly the matching teams; in the 2v2 handler the
\* overlay of the two players is shown either way.
C18_NoTeamFoundOnlySkipsTeam ==
    TeamStart =>
        /\ tick.handler = "_handle_2v2" => "2v2" \in overlays
        /\ MatchingTeams = {} =>
              /\ tick.outcome = "returned"
              /\ "team" \notin overlays
        /\ MatchingTeams # {} =>
              /\ tick.outcome # "returned"
              /\ team_analysis.present
              /\ Len(team_analysis.merged) = Cardinality(MatchingTeams)
              /\ \A k \in 1..Len(team_analysis.merged) :
                    team_analysis.merged[k] = KthMatching(k)

\* A 2v2 whose opponents were resolved and share no historical team: the
\* overlay of the two players is the only one shown.
C18_Witness ==
    /\ tick.handler = "_handle_2v2"
    /\ tick.outcome = "returned"
    /\ Len(tick.stats) = 2
    /\ MatchingTeams = {}
    /\ overlays = {"2v2"}

\* A 2v2 whose opponents both list their team, members in another order
\* than the roster: the team is merged from both.
C18_WitnessFound ==
    /\ tick.handler = "_handle_2v2"
    /\ Cardinality(MatchingTeams) = 2
    /\ overlays = {"2v2"}
    /\ team_analysis.merged = << <<2, 1>>, <<2, 1>> >>

StartHandlers == {"_handle_1v1", "_handle_2v2", "_handle_team_game"}

\* The game reported is the one the poller last evaluated.
SameGame == game # << >> /\ previous_state = PrevTuple(StateOf(game))

\* The evaluation of the game still reported ended with the upstream error
\* of a get_player_stats call.
FailedStart ==
    /\ SameGame
    /\ tick.handler \in StartHandlers
    /\ tick.outcome = UpstreamError

\* C19: when the evaluation of a new game ended with an upstream error of
\* a resolution, then, unless the game client reports another state (or
\* the hotkey is pressed), some later poll calls the stats API again.
C19_RetriesAfterUpstreamFailure ==
    \A b \in {0, 1} :
        [](FailedStart /\ lookups = b => <>(~SameGame \/ lookups # b))

\* The handlers that make one pass over several opponents.
PassHandlers == {"_handle_2v2", "_handle_team_game", "_handle_game_end"}

\* C20: a pass over the opponents of the reported game calls the resolver
\* for every one of them, whichever of them fails: in the poller's 2v2 and
\* team starts and game-end logging, and in the briefer's player loop.
C20_FailuresArePerOpponent ==
    [][ /\ (tick' # tick /\ tick'.handler \in PassHandlers) =>
              tick'.attempted = Names(opp_team(config, game))
        /\ (briefing' # briefing /\ briefing'.handler = "poll_games") =>
              briefing'.attempted = Names(BrieferOpponents(config, game))
      ]_vars

\* C26: the player named config.me.name is never among the players a poll
\* resolves as opponents, and no row of the log is theirs, whether or not
\* the name is listed in config.team.members.
C26_UserIsNeverOpponent ==
    /\ config.me.name \notin Range(tick.attempted)
    /\ \A k \in 1..Len(player_log) :
          player_log[k].battlenet_id # IdOf[config.me.name]

IsPrefix(a, b) == Len(a) <= Len(b) /\ SubSeq(b, 1, Len(a)) = a

\* C22: every step leaves the rows already in the log where and as they
\* were (identity, status and MMR), new rows coming after them, and every
\* row has the status victory, defeat or tie.
C22_LogIsAppendOnly ==
    [][ /\ IsPrefix(player_log, player_log')
        /\ \A k \in 1..Len(player_log') :
              player_log'[k].match_status \in {"victory", "defeat", "tie"}
      ]_vars

\* C22 witness: a game end whose pass failed, after three rows had been
\* saved.
C22_Witness ==
    /\ Len(player_log) >= 3
    /\ tick.handler = "_handle_game_end"
    /\ tick.outcome \in {UpstreamError, "ValueError"}

\* The game reported is under way: somebody plays and nobody has a final
\* result.
InProgress ==
    /\ game # << >>
    /\ \A i \in 1..Len(game) : game[i].result \notin {"Victory", "Defeat", "Tie"}

\* The names and races reported, as previous_state holds them.
Reported ==
    [kind |-> "tuple",
     state |-> [ i \in 1..Len(game) |-> <<game[i].name, game[i].race>> ]]

\* The step is an evaluation of the game reported: the overlays of the
\* game before are gone, the stats API is called, a start handler ran and
\* previous_state is the state reported.
Evaluates ==
    /\ lookups' # lookups
    /\ tick'.handler \in StartHandlers
    /\ tick'.attempted # << >>
    /\ overlays' \subseteq {"history", "player", "2v2", "team"}
    /\ previous_state' = Reported

\* The step evaluates nothing: no handler runs, the stats API is not
\* called, the overlays and the team analysis stay.
EvaluatesNothing ==
    /\ lookups' = lookups
    /\ overlays' = overlays
    /\ tick' = tick \/ tick'.handler = "none"
    /\ team_analysis' = team_analysis

\* C23: while the same game under way is reported, a step evaluates it
\* exactly when previous_state differs from the names and races reported
\* and the step is a poll (it is not the hotkey, which only stores "{}"):
\* polls of a state already stored evaluate nothing, and the first poll
\* after the hotkey evaluates again.
C23_EvaluatesOncePerState ==
    [][ (InProgress /\ game' = game) =>
           IF previous_state = Reported
           THEN EvaluatesNothing
           ELSE \/ Evaluates
                \/ (previous_state' = PrevStr /\ EvaluatesNothing)
      ]_vars

\* C23 witness: a second evaluation has run (lookups is even again), of
\* the game with the opponent on another race, and stored its state.
C23_Witness ==
    /\ InProgress
    /\ previous_state = Reported
    /\ lookups = 0
    /\ tick.handler = "_handle_1v1"
    /\ tick.outcome = "returned"
    /\ game = OffRace(Undecided(<<"me", "x">>))

\* The last poll handled a game end, and the game now reported is under
\* way with the names and races previous_state holds: those of the game
\* evaluated last.
RematchReported ==
    /\ tick.handler = "_handle_game_end"
    /\ InProgress
    /\ previous_state = Reported

\* C24: after a game end was handled, a game under way with the same
\* players and races is evaluated by a later poll (the stats API is called
\* again), unless the game client reports something else first or the
\* hotkey is pressed.
C24_RematchIsEvaluated ==
    \A b \in {0, 1} :
        []((RematchReported /\ lookups = b) =>
              <>(~InProgress \/ previous_state # Reported \/ lookups # b))

\* The players of the game reported that are neither the user nor listed
\* in config.team.members, by name.
OpponentNames ==
    Names(SelectSeq(game, LAMBDA p : /\ p.name # config.me.name
                                     /\ p.name \notin config.team.members))

\* The game reported has ended and the last poll journaled it: it went
\* through all its opponents, and only them, without an exception.
Journaled ==
    /\ \E i \in 1..Len(game) : game[i].result \in {"Victory", "Defeat", "Tie"}
    /\ tick.handler = "_handle_game_end"
    /\ tick.outcome = "returned"
    /\ tick.attempted = OpponentNames

\* C25: once a poll has journaled the finished game, further polls of the
\* same game-end state add no row to the log.
C25_JournaledOncePerOpponent ==
    [][ (Journaled /\ game' = game) => player_log' = player_log ]_vars

\* C29: whatever handler called get_player_stats at the last poll (for
\* players other than the user), it passed the range
\* [me.mmr - 500, me.mmr + 500].
C29_SameHintRangeInEveryMode ==
    (tick.attempted # << >> /\ config.me.name \notin Range(tick.attempted)) =>
        /\ tick.mmr_range.min = config.me.mmr - 500
        /\ tick.mmr_range.max = config.me.mmr + 500

(***************************************************************************)
(* Encounter history: PlayerLogAnalysis.from_battlenet_id, record_vs_me    *)
(* and summary, and _show_opponent_history of the 1v1 handler.             *)
(***************************************************************************)

MaxStored == 3    \* rows of the player_log table

ValueError == "ValueError"

\* created_at of the rows (two rows may share an instant) and the limits
\* asked for.
Stamps == { 1, 2 }
Limits == { 1, 2 }

StoredRows ==
    [battlenet_id : {1, 2}, match_status : MatchStatuses, created_at : Stamps]

\* An opponent's victory told as the user's win.
map_to_me_same(status) ==
    CASE status = "victory" -> "win"
      [] status = "defeat" -> "loss"
      [] status = "tie" -> "tie"

\* _map_to_me, lines 48-54.
map_to_me(status) ==
    CASE status = "victory" -> "loss"
      [] status = "defeat" -> "win"
      [] status = "tie" -> "tie"

\* The loop of record_vs_me, lines 62-71.
Tally(acc, mine) ==
    IF mine = "win" THEN [acc EXCEPT !.wins = @ + 1]
    ELSE IF mine = "loss" THEN [acc EXCEPT !.losses = @ + 1]
    ELSE [acc EXCEPT !.ties = @ + 1]

RECURSIVE RecordFrom(_, _, _)
RecordFrom(ls, i, acc) ==
    IF i > Len(ls) THEN acc
    ELSE RecordFrom(ls, i + 1, Tally(acc, map_to_me(ls[i].match_status)))

record_vs_me(ls) == RecordFrom(ls, 1, [wins |-> 0, losses |-> 0, ties |-> 0])

\* first_encounter is logs[-1], last_encounter is logs[0] (lines 38-46).
first_encounter(ls) == ls[Len(ls)].created_at
last_encounter(ls) == ls[1].created_at

\* summary(), lines 73-84.
WithRecord(ls, rec) ==
    [times_played |-> Len(ls), wins |-> rec.wins, losses |-> rec.losses,
     ties |-> rec.ties, first_played_at |-> first_encounter(ls),
     last_played_at |-> last_encounter(ls)]

encounter_summary(ls) == WithRecord(ls, record_vs_me(ls))

\* The rows of the opponent, by position in the table.
RowsOf(tbl, id) == { k \in 1..Len(tbl) : tbl[k].battlenet_id = id }

\* order_by(created_at.desc()): the orders the database may return the
\* rows of the opponent in, rows of the same instant in either order.
Orders(tbl, id) ==
    { o \in [1..Cardinality(RowsOf(tbl, id)) -> RowsOf(tbl, id)] :
         \A i, j \in 1..Cardinality(RowsOf(tbl, id)) :
            i < j => /\ o[i] # o[j]
                     /\ tbl[o[i]].created_at >= tbl[o[j]].created_at }

\* .limit(limit) of the ordered rows.
Limited(tbl, o, lim) ==
    [ i \in 1..(IF Len(o) < lim THEN Len(o) ELSE lim) |-> tbl[o[i]] ]

\* Lines 26-28: ValueError without rows, else the analysis of the rows.
FromRows(ls) ==
    IF ls = << >> THEN Raised(ValueError)
    ELSE Returned([logs |-> ls, summary |-> encounter_summary(ls)])

\* from_battlenet_id followed by summary(), o being the order returned.
from_battlenet_id(tbl, id, lim, o) == FromRows(Limited(tbl, o, lim))

InitHistory ==
    /\ ResolverIdle /\ SmurfIdle /\ TrendIdle /\ NormIdle
    /\ AnalysisIdle /\ TeammatesIdle /\ PollerIdle /\ LoopIdle
    /\ stored \in SeqsUpTo(StoredRows, MaxStored)
    /\ asked_id \in {1, 2}
    /\ fetch_limit \in Limits
    /\ logs = Unread
    /\ shown = Unread

\* One fetch of the opponent's encounters and their summary.
FromBattlenetId ==
    /\ logs = Unread
    /\ \E o \in Orders(stored, asked_id) :
         logs' = from_battlenet_id(stored, asked_id, fetch_limit, o)
    /\ UNCHANGED <<stored, asked_id, fetch_limit, shown, resolverVars,
                   smurfVars, trendVars, normVars, analysisVars,
                   teammateVars, pollerVars, loopVars>>

\* The record get_player_stats returned for the opponent.
Opponent(id) ==
    [name |-> "x", battlenetId |-> id, teams |-> << >>, rating |-> 3000]

\* _handle_1v1 for the opponent once resolved: _show_opponent_history with
\* the default limit, then the overlay of the player.
Handle1v1 ==
    /\ shown = Unread
    /\ shown' =
         Returned(handle_1v1(Tick("_handle_1v1", "returned", <<"x">>,
                                  <<Opponent(asked_id)>>),
                             {}, NoTeamAnalysis, stored).overlays)
    /\ UNCHANGED <<stored, asked_id, fetch_limit, logs, resolverVars,
                   smurfVars, trendVars, normVars, analysisVars,
                   teammateVars, pollerVars, loopVars>>

NextHistory == FromBattlenetId \/ Handle1v1

SpecHistory == InitHistory /\ [][NextHistory]_vars

(***************************************************************************)
(* Claims about the encounter history.                                     *)
(***************************************************************************)

\* The entries of the opponent in the table, and how many of the fetched
\* entries have a status.
Entries == { k \in 1..Len(stored) : stored[k].battlenet_id = asked_id }
Fetched(status) ==
    Cardinality({ i \in 1..Len(logs.value.logs) :
                     logs.value.logs[i].match_status = status })

\* C30: with entries for the opponent the summary's wins, losses and ties
\* add up to times_played, which is at most the limit; the opponent's
\* victories are the user's losses and their defeats the user's wins;
\* first_played_at is not after last_played_at; and the 1v1 handler shows
\* the history overlay with the player's.  Without entries the fetch
\* raises ValueError and the handler shows the player's overlay alone.
C30_EncounterSummary ==
    /\ (logs # Unread /\ Entries # {}) =>
          /\ logs.outcome = "returned"
          /\ logs.value.summary.wins + logs.value.summary.losses
                + logs.value.summary.ties = logs.value.summary.times_played
          /\ logs.value.summary.times_played <= fetch_limit
          /\ logs.value.summary.times_played <= Cardinality(Entries)
          /\ logs.value.summary.losses = Fetched("victory")
          /\ logs.value.summary.wins = Fetched("defeat")
          /\ logs.value.summary.first_played_at
                <= logs.value.summary.last_played_at
    /\ (logs # Unread /\ Entries = {}) => logs = Raised("ValueError")
    /\ (shown # Unread /\ Entries # {}) => shown.value = {"history", "player"}
    /\ (shown # Unread /\ Entries = {}) => shown.value = {"player"}

\* C30 witness: three entries of the opponent at two instants, two of them
\* fetched, a victory and a defeat among them, and the overlays shown.
C30_Witness ==
    /\ logs.outcome = "returned"
    /\ Cardinality(Entries) = 3
    /\ logs.value.summary.times_played = 2
    /\ logs.value.summary.wins = 1
    /\ logs.value.summary.losses = 1
    /\ logs.value.summary.first_played_at < logs.value.summary.last_played_at
    /\ shown = Returned({"history", "player"})

\* C30, the other side: no entry, ValueError, the player's overlay alone.
C30_WitnessNone ==
    /\ logs = Raised("ValueError")
    /\ stored # << >>
    /\ shown = Returned({"player"})

(***************************************************************************)
(* The Qt thread: the poll timer, poll_once with the event pumping of      *)
(* close_all_overlays and of Overlay.show, and the timers of the history   *)
(* overlay.  The overlays of smurfsniper.analyze.players are not under     *)
(* src/ and are left out.                                                  *)
(***************************************************************************)

MaxWidgets == 2   \* overlays created
MaxDepth == 3     \* handlers nested on the Qt thread

Frame(kind, at, path, widget) ==
    [kind |-> kind, at |-> at, path |-> path, widget |-> widget]

Widget(visible, show_pending) ==
    [visible |-> visible, registered |-> TRUE, show_pending |-> show_pending,
     close_pending |-> FALSE]

\* The timer's timeout delivered whatever is running.
TimerMayFireNested(fs) == TRUE

\* timer.timeout.connect(poller.poll_once): Qt's event dispatcher does not
\* deliver the timeout of a timer whose own handler has not returned.
TimerMayFire(fs) == \A i \in 1..Len(fs) : fs[i].kind # "poll_once"

\* An event loop is processing events: app.exec() with no handler running,
\* app.processEvents() in close_all_overlays, or the QEventLoop of show().
EventLoopRuns(fs) ==
    IF fs = << >> THEN TRUE
    ELSE fs[Len(fs)].at \in {"processEvents", "show"}

Running(fs, kind, at) ==
    IF fs = << >> THEN FALSE
    ELSE fs[Len(fs)].kind = kind /\ fs[Len(fs)].at = at

Return(fs) == SubSeq(fs, 1, Len(fs) - 1)

Goto(fs, at, path, widget) ==
    [fs EXCEPT ![Len(fs)] = Frame(fs[Len(fs)].kind, at, path, widget)]

\* overlay_manager.py lines 15-21: every registered overlay is closed and
\* the registry is cleared.
close_all_overlays(ws) ==
    [ i \in 1..Len(ws) |->
        IF ws[i].registered
        THEN [ws[i] EXCEPT !.visible = FALSE, !.registered = FALSE]
        ELSE ws[i] ]

\* player_logs.py lines 113-138: the Overlay registers itself; it is shown
\* at once, or delayed_show is scheduled with QTimer.singleShot.
show_overlay(ws, delay) ==
    IF delay <= 0 THEN Append(ws, Widget(TRUE, FALSE))
    ELSE Append(ws, Widget(FALSE, TRUE))

InitLoop ==
    /\ ResolverIdle /\ SmurfIdle /\ TrendIdle /\ NormIdle
    /\ AnalysisIdle /\ TeammatesIdle /\ PollerIdle /\ HistoryIdle
    /\ frames = << >>
    /\ timer_due = FALSE
    /\ widgets = << >>
    /\ show_delay \in {0, 2}

outsideLoop ==
    <<resolverVars, smurfVars, trendVars, normVars, analysisVars,
      teammateVars, pollerVars, historyVars>>

\* Five seconds have passed since the timer was last due.
Elapse ==
    /\ ~timer_due
    /\ timer_due' = TRUE
    /\ UNCHANGED <<frames, widgets, show_delay, outsideLoop>>

\* An event loop delivers the timeout: poll_once begins with its request
\* to the game client.
TimerFires ==
    /\ timer_due
    /\ EventLoopRuns(frames)
    /\ TimerMayFire(frames)
    /\ Len(frames) < MaxDepth
    /\ timer_due' = FALSE
    /\ frames' = Append(frames, Frame("poll_once", "fetch", "none", 0))
    /\ UNCHANGED <<widgets, show_delay, outsideLoop>>

\* service.py lines 39-54 and 88-90: poll_once returns (no data, nobody,
\* the same game), or the game has ended or is a new one and
\* close_all_overlays closes the overlays and starts processing events.
GameFetched ==
    /\ Running(frames, "poll_once", "fetch")
    /\ \/ /\ frames' = Return(frames)
          /\ UNCHANGED widgets
       \/ /\ \E path \in {"end", "new"} :
                frames' = Goto(frames, "processEvents", path, 0)
          /\ widgets' = close_all_overlays(widgets)
    /\ UNCHANGED <<timer_due, show_delay, outsideLoop>>

\* The fifteen processEvents are over.  At a game end the opponents are
\* logged and poll_once returns; at a game start the opponent is resolved
\* and _show_opponent_history builds the history overlay, unless the
\* resolution fails or no row is found, and shows it or schedules it.
EventsProcessed ==
    /\ Running(frames, "poll_once", "processEvents")
    /\ \/ /\ frames' = Return(frames)
          /\ UNCHANGED widgets
       \/ /\ frames[Len(frames)].path = "new"
          /\ Len(widgets) < MaxWidgets
          /\ widgets' = show_overlay(widgets, show_delay)
          /\ frames' = IF show_delay <= 0
                       THEN Goto(frames, "show", "new", Len(widgets) + 1)
                       ELSE Return(frames)
    /\ UNCHANGED <<timer_due, show_delay, outsideLoop>>

\* overlays.py lines 100-104: the QEventLoop of show() has quit, the close
\* after duration_seconds is scheduled, and the handler returns.
ShowReturns ==
    /\ frames # << >>
    /\ frames[Len(frames)].at = "show"
    /\ widgets' = [widgets EXCEPT
                      ![frames[Len(frames)].widget].close_pending = TRUE]
    /\ frames' = Return(frames)
    /\ UNCHANGED <<timer_due, show_delay, outsideLoop>>

\* An event loop delivers the single shot of player_logs.py line 138:
\* delayed_show calls ov.show().
DelayedShow ==
    /\ EventLoopRuns(frames)
    /\ Len(frames) < MaxDepth
    /\ \E w \in 1..Len(widgets) :
          /\ widgets[w].show_pending
          /\ widgets' = [widgets EXCEPT ![w].show_pending = FALSE,
                                        ![w].visible = TRUE]
          /\ frames' = Append(frames, Frame("delayed_show", "show", "none", w))
    /\ UNCHANGED <<timer_due, show_delay, outsideLoop>>

\* An event loop delivers the single shot of overlays.py line 104: close.
DurationClose ==
    /\ EventLoopRuns(frames)
    /\ \E w \in 1..Len(widgets) :
          /\ widgets[w].close_pending
          /\ widgets' = [widgets EXCEPT ![w].close_pending = FALSE,
                                        ![w].visible = FALSE]
    /\ UNCHANGED <<frames, timer_due, show_delay, outsideLoop>>

NextLoop ==
    \/ Elapse \/ TimerFires \/ GameFetched \/ EventsProcessed \/ ShowReturns
    \/ DelayedShow \/ DurationClose

SpecLoop == InitLoop /\ [][NextLoop]_vars

(***************************************************************************)
(* Claims about the Qt thread.                                             *)
(***************************************************************************)

\* The runs of poll_once that have begun and not returned.
InFlight == { i \in 1..Len(frames) : frames[i].kind = "poll_once" }

C21_WitnessProcessEvents ==
    /\ timer_due
    /\ Running(frames, "poll_once", "processEvents")

\* C27: every visible overlay is in the registry OPEN_OVERLAYS, so that
\* an overlay closed by close_all_overlays is not visible later.
C27_VisibleOverlaysAreRegistered ==
    \A w \in 1..Len(widgets) : widgets[w].visible => widgets[w].registered

=============================================================================
